---- MODULE Spec2Model ----
(***************************************************************************)
(* Batch import of applicant cases (backend/src/controllers/cases.js):     *)
(* POST /api/cases/batch and PUT /api/cases/:caseId over the cases, notes  *)
(* and import_logs tables.  JavaScript indices stay 0-based in the values  *)
(* of the model (rowIndex, errors[].index); TLA+ sequences are 1-based, so *)
(* rows[k + 1] is the row of index k.                                      *)
(***************************************************************************)
EXTENDS Integers, Sequences, FiniteSets, TLC

\* ------------------------------------------------------------------ bounds
MaxRuns == 2
MaxRows == 3
MaxTotalRows == 3
MaxFaults == 1
MaxClock == 2
MaxPuts == 1
MaxEditRows == 2
MaxOrderRows == 2
MaxAnswerRows == 2
MaxUploadRows == 900
UploadRowStep == 50
MaxFieldRows == 2
MaxReadRows == 3
MaxDeleteRows == 2
MaxDeleteClock == 3
MaxPostedNotes == 1
MaxStatusRows == 3
MaxNoteRows == 4

\* ------------------------------------------------------- values and tables
\* null / undefined of the program (a field that is absent from the row)
NULL == "<null>"

\* chunk size of chunkArray(rows, 100) and of rowIndex = ci * 100 + i
ChunkSize == 100

\* enum "CaseStatus" of the cases table
CaseStatus == {"NEW", "PROCESSING", "COMPLETED", "FAILED"}

\* optional integer column: {} is SQL NULL, {n} is the integer n
None == {}
Some(n) == {n}

\* the characters of the strings that occur as case_id in the model
Chars(s) ==
  CASE s = "A" -> <<"A">>
    [] s = "a" -> <<"a">>
    [] s = "B" -> <<"B">>
    [] s = "C2" -> <<"C", "2">>
    [] s = "C10" -> <<"C", "1", "0">>
    [] s = " " -> <<" ">>
    [] OTHER -> <<>>

IsDigit(c) == c \in {"0", "1", "2", "3", "4", "5", "6", "7", "8", "9"}

DigitVal(c) ==
  CASE c = "0" -> 0 [] c = "1" -> 1 [] c = "2" -> 2 [] c = "3" -> 3
    [] c = "4" -> 4 [] c = "5" -> 5 [] c = "6" -> 6 [] c = "7" -> 7
    [] c = "8" -> 8 [] c = "9" -> 9 [] OTHER -> 0

\* primary (base) collation weight of a letter: case is ignored, and every
\* letter sorts after every number; a space sorts before every number
BaseWeight(c) ==
  CASE c = " " -> -1
    [] c \in {"a", "A"} -> 1001
    [] c \in {"b", "B"} -> 1002
    [] c \in {"c", "C"} -> 1003
    [] OTHER -> 1999

\* collation elements under { numeric: true, sensitivity: 'base' }: a run of
\* digits is one element, its numeric value; a letter is its base weight
RECURSIVE CollationKey(_, _, _)
CollationKey(cs, num, acc) ==
  IF cs = <<>> THEN (IF num = None THEN acc ELSE Append(acc, CHOOSE n \in num : TRUE))
  ELSE IF IsDigit(Head(cs))
    THEN CollationKey(Tail(cs),
           Some((IF num = None THEN 0 ELSE 10 * (CHOOSE n \in num : TRUE)) + DigitVal(Head(cs))),
           acc)
    ELSE CollationKey(Tail(cs), None,
           Append(IF num = None THEN acc ELSE Append(acc, CHOOSE n \in num : TRUE),
                  BaseWeight(Head(cs))))

RECURSIVE CompareKeys(_, _)
CompareKeys(x, y) ==
  IF x = <<>> /\ y = <<>> THEN 0
  ELSE IF x = <<>> THEN -1
  ELSE IF y = <<>> THEN 1
  ELSE IF Head(x) < Head(y) THEN -1
  ELSE IF Head(x) > Head(y) THEN 1
  ELSE CompareKeys(Tail(x), Tail(y))

\* String(a?.case_id ?? '')
SortId(row) == IF row.case_id = NULL THEN "" ELSE row.case_id

\* aId.localeCompare(bId, undefined, { numeric: true, sensitivity: 'base' })
LocaleCompare(a, b) ==
  CompareKeys(CollationKey(Chars(a), None, <<>>), CollationKey(Chars(b), None, <<>>))

\* variant: an element goes before the elements it compares equal to
RECURSIVE InsertBeforeEqual(_, _, _)
InsertBeforeEqual(perm, k, raw) ==
  IF perm = <<>> THEN <<k>>
  ELSE IF LocaleCompare(SortId(raw[perm[Len(perm)]]), SortId(raw[k])) < 0
    THEN Append(perm, k)
    ELSE Append(InsertBeforeEqual(SubSeq(perm, 1, Len(perm) - 1), k, raw), perm[Len(perm)])

\* Array.prototype.sort is stable: the element of input position k goes after
\* every element already placed that does not compare greater
RECURSIVE InsertStable(_, _, _)
InsertStable(perm, k, raw) ==
  IF perm = <<>> THEN <<k>>
  ELSE IF LocaleCompare(SortId(raw[perm[Len(perm)]]), SortId(raw[k])) <= 0
    THEN Append(perm, k)
    ELSE Append(InsertStable(SubSeq(perm, 1, Len(perm) - 1), k, raw), perm[Len(perm)])

RECURSIVE SortPermUpTo(_, _)
SortPermUpTo(raw, n) ==
  IF n = 0 THEN <<>> ELSE InsertStable(SortPermUpTo(raw, n - 1), n, raw)

\* the permutation of raw.slice().sort(...): SortPerm(raw)[k] is the 1-based
\* input position of the row processed k-th
SortPerm(raw) == SortPermUpTo(raw, Len(raw))

SortRows(raw) == [k \in 1..Len(raw) |-> raw[SortPerm(raw)[k]]]

\* --------------------------------------------------------------- the rows
\* a raw row: every field is a string or absent (NULL)
Row(cid, name, email, prio, st, dob) ==
  [case_id |-> cid, applicant_name |-> name, dob |-> dob, email |-> email,
   phone |-> NULL, category |-> NULL, priority |-> prio, status |-> st]

RowPool ==
  { Row("A", "old", "a@x.com", "3", NULL, "2001-02-03"),
    Row("A", "new", NULL, NULL, "NEW", "never"),
    Row("A", "bad", "bad", NULL, NULL, NULL),
    Row("B", "bee", NULL, NULL, "BOGUS", NULL),
    Row(NULL, "nokey", NULL, NULL, NULL, NULL) }

\* rows that differ in the shape of their case_id and of their priority:
\* an empty and a blank case_id, none at all, keys that differ in case or in
\* a number, priorities given as labels or as a numeric string
FieldRowPool ==
  { Row("", "empty", NULL, NULL, NULL, NULL),
    Row(" ", "blank", NULL, NULL, NULL, NULL),
    Row(NULL, "nokey", NULL, NULL, NULL, NULL),
    Row("C10", "ten", NULL, "HIGH", NULL, NULL),
    Row("C2", "two", NULL, "3", NULL, NULL),
    Row("a", "lower", NULL, "high", NULL, NULL),
    Row("A", "upper", NULL, "URGENT", NULL, NULL),
    Row("A", "plain", NULL, NULL, NULL, NULL) }

\* the request bodies that are lists of at most n such rows
FieldBodies(n) ==
  { [isArray |-> TRUE, cases |-> l] : l \in UNION { [1..m -> FieldRowPool] : m \in 0..n } }

\* the lists of at most n rows
RowLists(n) == UNION { [1..m -> RowPool] : m \in 0..n }

\* the request bodies: an array of rows (or { cases: [...] }), or something
\* that is neither
Bodies(n) ==
  { [isArray |-> TRUE, cases |-> l] : l \in RowLists(n) }
  \cup { [isArray |-> FALSE, cases |-> <<>>] }

\* req.user as decoded from the token: { userId, role }
Callers ==
  { [userId |-> "u1", role |-> "OPERATOR"],
    [userId |-> "u2", role |-> "ADMIN"],
    [userId |-> NULL, role |-> "OPERATOR"] }

\* the callers of the batch import in the model: one with an identity, one
\* whose token carries no userId
BatchCallers == { u \in Callers : u.role = "OPERATOR" }

\* JavaScript truthiness of a string-or-absent value
Truthy(v) == v /= NULL /\ v /= ""

\* z.string().email()
IsEmail(s) == s \in {"a@x.com", "b@x.com"}

\* Number(v) of a string: {} is NaN
NumberOf(s) ==
  CASE s = "1" -> Some(1) [] s = "2" -> Some(2) [] s = "3" -> Some(3)
    [] s = "" -> Some(0)
    [] OTHER -> None

\* new Date(value): NULL is an invalid date
DateOf(s) == IF s \in {"2001-02-03"} THEN s ELSE NULL

\* helper: coerce priority values to int or null
parsePriorityValue(v) ==
  IF v = NULL THEN None
  ELSE IF v = "" THEN None
  ELSE IF NumberOf(v) /= None THEN NumberOf(v)
  ELSE IF v \in {"HIGH", "high"} THEN Some(3)
  ELSE IF v \in {"MEDIUM", "medium"} THEN Some(2)
  ELSE IF v \in {"LOW", "low"} THEN Some(1)
  ELSE None

safeDateFrom(v) == IF ~Truthy(v) THEN NULL ELSE DateOf(v)

\* the preprocess step of caseSchema.priority: None is null, otherwise the
\* number, or the string itself when it is not numeric
PriorityIsNumber(v) == v = NULL \/ v = "" \/ NumberOf(v) /= None
PreprocessPriority(v) == IF v = NULL \/ v = "" THEN None ELSE NumberOf(v)

\* the issues of caseSchema.safeParse(row), in schema order
SchemaIssues(row) ==
  (IF row.case_id = NULL THEN <<"Required">> ELSE <<>>)
  \o (IF row.email /= NULL /\ ~IsEmail(row.email) THEN <<"Invalid email">> ELSE <<>>)
  \o (IF ~PriorityIsNumber(row.priority)
        THEN <<"Expected number, received string">> ELSE <<>>)

\* parsed.error.errors.map((e) => e.message).join('; ')
RECURSIVE JoinMessages(_)
JoinMessages(ms) ==
  IF ms = <<>> THEN ""
  ELSE IF Len(ms) = 1 THEN ms[1]
  ELSE ms[1] \o "; " \o JoinMessages(Tail(ms))

\* parsed.data
ParsedData(row) == [row EXCEPT !.priority = PreprocessPriority(row.priority)]

\* `FAILED-${importTimestamp.getTime()}-${ci}-${i}`
FallbackId(ts, ci, i) ==
  "FAILED-" \o ToString(ts) \o "-" \o ToString(ci) \o "-" \o ToString(i)

\* Math.random().toString(36).slice(2, 8)
Suffixes == {"k3x9qa", "0zz1mb"}

\* `${fallbackId}-${suffix}`
SuffixedId(fallbackId, sfx) == fallbackId \o "-" \o sfx

\* `Original case_id: ${original} — ${message}`
ErrorMessage(original, message) == [original |-> original, message |-> message]

\* chunkArray(rows, 100)[ci]
Chunk(rows, ci) ==
  SubSeq(rows, ci * ChunkSize + 1,
         IF (ci + 1) * ChunkSize < Len(rows) THEN (ci + 1) * ChunkSize ELSE Len(rows))

\* chunks.length
NumChunks(rows) == (Len(rows) + ChunkSize - 1) \div ChunkSize

\* -------------------------------------------------------------- the state
VARIABLES
  cases,       \* table "cases": a set of records, one per row of the table
  notes,       \* table "notes"
  importLogs,  \* table "import_logs"
  nextId,      \* source of the generated primary keys
  clock,       \* new Date().getTime()
  faults,      \* persistence calls that have failed for a reason outside the model
  run,         \* run[r]: the locals of the r-th POST /batch request
  put,         \* put[p]: the locals of the p-th PUT /:caseId request
  view,        \* the response to the last DELETE /api/import-logs/:id
  upload       \* the upload page: the locals and the state of submitBatch

vars == <<cases, notes, importLogs, nextId, clock, faults, run, put, view, upload>>

Runs == 1..MaxRuns
Puts == 1..MaxPuts

\* the per-row outcome, kept for the properties (not a value of the program)
Pending == "PENDING"
Terminal == {"SKIPPED_DUPLICATE", "VALIDATION_FAILED", "PERSIST_FAILED", "SUCCEEDED"}

DuplicateMessage == "Duplicate case_id in file - later row will be used"

NoCreateData ==
  [case_id |-> NULL, applicant_name |-> NULL, dob |-> NULL, email |-> NULL,
   phone |-> NULL, category |-> NULL, priority |-> None, status |-> NULL,
   importedById |-> NULL, importedAt |-> 0, errorMessage |-> None]

NoResponse == [status |-> 0, totalRows |-> 0, successCount |-> 0, failCount |-> 0,
               errors |-> <<>>, importLogId |-> None]

IdleRun ==
  [pc |-> "idle", user |-> [userId |-> NULL, role |-> NULL],
   rows |-> <<>>, totalRows |-> 0,
   successCount |-> 0, failCount |-> 0, errors |-> <<>>,
   lastIndexForCase |-> <<>>, duplicatesMap |-> <<>>, dupCaseIds |-> <<>>,
   importTimestamp |-> 0, ci |-> 0, i |-> 0,
   createData |-> NoCreateData, fallbackId |-> NULL,
   k |-> 0, theCase |-> 0, response |-> NoResponse,
   \* history of the run, for the properties
   received |-> 0, perm |-> <<>>, term |-> <<>>, wrote |-> <<>>, noteFailed |-> FALSE,
   logFailed |-> FALSE]

\* a field the payload of PUT /:caseId does not have (undefined)
UNDEF == "<undefined>"

NoPayload ==
  [applicant_name |-> UNDEF, email |-> UNDEF, phone |-> UNDEF, category |-> UNDEF,
   status |-> UNDEF, dob |-> UNDEF, priority |-> UNDEF]

IdlePut == [pc |-> "idle", user |-> [userId |-> NULL, role |-> NULL],
            payload |-> NoPayload, existing |-> 0, status |-> 0]

\* nothing has been deleted yet
NoView ==
  [kind |-> "none", user |-> [userId |-> NULL, role |-> NULL], status |-> 0,
   log |-> None, removed |-> 0,
   \* how many notes went with the cases, for the properties
   g_notes |-> 0]

\* the upload page before the rows are submitted
NoUpload ==
  [pc |-> "idle", rowData |-> 0, batches |-> <<>>, totalBatches |-> 0,
   pointer |-> 0, successCount |-> 0, failCount |-> 0,
   \* the requests of the window that is awaited: batch number -> outcome
   results |-> <<>>, window |-> {},
   uploading |-> FALSE, completed |-> 0, success |-> 0, failed |-> 0,
   toast |-> "none",
   \* how often each batch was posted, for the properties
   g_posts |-> <<>>]

Init ==
  /\ cases = {}
  /\ notes = {}
  /\ importLogs = {}
  /\ nextId = 1
  /\ clock = 1
  /\ faults = 0
  /\ run = [r \in Runs |-> IdleRun]
  /\ put = [p \in Puts |-> IdlePut]
  /\ view = NoView
  /\ upload = NoUpload

\* ------------------------------------------------------ persistence gateway
\* a persistence call may fail for a reason the handler does not control
\* (connection loss, timeout, a foreign key); the model bounds how often
CanFault == faults < MaxFaults

\* prisma.case.findUnique({ where: { case_id } }): the matching rows (the
\* unique index cases_case_id_key leaves at most one)
FindByCaseId(cid) == { c \in cases : c.case_id = cid }

\* INSERT into cases is rejected by the unique index on case_id
CreateConflicts(data) == FindByCaseId(data.case_id) /= {}

\* the row prisma.case.create({ data }) inserts
CreatedCase(data, id, r, pos) ==
  [id |-> id, case_id |-> data.case_id, applicant_name |-> data.applicant_name,
   dob |-> data.dob, email |-> data.email, phone |-> data.phone,
   category |-> data.category, priority |-> data.priority, status |-> data.status,
   importedById |-> data.importedById, importedAt |-> data.importedAt,
   errorMessage |-> data.errorMessage,
   g_run |-> r, g_pos |-> pos, g_edited |-> FALSE]

\* variant: the update leaves the stamp of the first import in place
UpdatedCaseKeepsStamp(old, data, r, pos) ==
  [old EXCEPT !.applicant_name = data.applicant_name, !.dob = data.dob,
              !.email = data.email, !.phone = data.phone,
              !.category = data.category, !.priority = data.priority,
              !.status = data.status, !.errorMessage = None,
              !.g_run = r, !.g_pos = pos, !.g_edited = FALSE]

\* the row prisma.case.upsert leaves when a row with the key exists: the
\* fields of `update` replace the old ones, id and case_id stay
UpdatedCase(old, data, r, pos) ==
  [old EXCEPT !.applicant_name = data.applicant_name, !.dob = data.dob,
              !.email = data.email, !.phone = data.phone,
              !.category = data.category, !.priority = data.priority,
              !.status = data.status, !.importedById = data.importedById,
              !.importedAt = data.importedAt, !.errorMessage = None,
              !.g_run = r, !.g_pos = pos, !.g_edited = FALSE]

\* variant: a plain insert into a table without the unique index
InsertCases(data, id, r, pos) == cases \cup {CreatedCase(data, id, r, pos)}

\* prisma.case.upsert({ where: { case_id }, update, create }) on the table
UpsertCases(data, id, r, pos) ==
  IF FindByCaseId(data.case_id) = {}
    THEN cases \cup {CreatedCase(data, id, r, pos)}
    ELSE { IF c.case_id = data.case_id THEN UpdatedCase(c, data, r, pos) ELSE c : c \in cases }

\* the upsert is rejected by the database: status is not a CaseStatus
UpsertRejected(data) == data.status \notin CaseStatus

\* ------------------------------------------------------- POST /api/cases/batch
\* variant: the first occurrence of a case_id is kept instead of the last
FirstIndexForCase(rows) ==
  [cid \in { rows[n].case_id : n \in { m \in 1..Len(rows) : Truthy(rows[m].case_id) } } |->
     CHOOSE idx \in 0..(Len(rows) - 1) :
       /\ rows[idx + 1].case_id = cid
       /\ \A j \in 0..(Len(rows) - 1) : rows[j + 1].case_id = cid => j >= idx]

\* rows.forEach((r, idx) => { if (cid) lastIndexForCase[String(cid)] = idx })
LastIndexForCase(rows) ==
  [cid \in { rows[n].case_id : n \in { m \in 1..Len(rows) : Truthy(rows[m].case_id) } } |->
     CHOOSE idx \in 0..(Len(rows) - 1) :
       /\ rows[idx + 1].case_id = cid
       /\ \A j \in 0..(Len(rows) - 1) : rows[j + 1].case_id = cid => j <= idx]

RowsInFlight == LET RECURSIVE Sum(_)
                    Sum(n) == IF n = 0 THEN 0 ELSE run[n].totalRows + Sum(n - 1)
                IN Sum(MaxRuns)

\* the locals of the row the loop is at
RowIndex(st) == st.ci * ChunkSize + st.i
CurrentRow(st) == Chunk(st.rows, st.ci)[st.i + 1]
CaseIdValue(st) == IF Truthy(CurrentRow(st).case_id) THEN CurrentRow(st).case_id ELSE NULL
IsEarlierDuplicate(st) ==
  /\ CaseIdValue(st) /= NULL
  /\ st.lastIndexForCase[CaseIdValue(st)] /= RowIndex(st)

\* where the handler goes after the row loop: the duplicate notes, if any,
\* then the import log
AfterNotes(st) == [st EXCEPT !.pc = "log"]
NextNote(st, k) ==
  IF k < Len(st.dupCaseIds) THEN [st EXCEPT !.pc = "noteFind", !.k = k]
  ELSE AfterNotes([st EXCEPT !.k = k])

\* i++ of the inner loop, ci++ of the outer one
Advance(st) ==
  LET more == st.i + 1 < Len(Chunk(st.rows, st.ci))
      ci2 == IF more THEN st.ci ELSE st.ci + 1
      i2 == IF more THEN st.i + 1 ELSE 0
  IN IF ci2 < NumChunks(st.rows)
       THEN [st EXCEPT !.ci = ci2, !.i = i2, !.pc = "row"]
       ELSE NextNote([st EXCEPT !.ci = ci2, !.i = i2], 0)

SetTerm(st, t) == [st EXCEPT !.term[RowIndex(st) + 1] = t]
AddWrite(st) == [st EXCEPT !.wrote[RowIndex(st) + 1] = @ + 1]

\* variant: a skipped duplicate is counted as a failure
SkipDuplicateAsFailure(st) ==
  LET cid == CaseIdValue(st)
      n == IF cid \in DOMAIN st.duplicatesMap THEN st.duplicatesMap[cid] ELSE 0
  IN SetTerm(
       [st EXCEPT
          !.failCount = @ + 1,
          !.errors = Append(@, [index |-> RowIndex(st), case_id |-> cid,
                                error |-> DuplicateMessage]),
          !.duplicatesMap = [c \in DOMAIN st.duplicatesMap \cup {cid} |->
                               IF c = cid THEN n + 1 ELSE st.duplicatesMap[c]],
          !.dupCaseIds = IF cid \in DOMAIN st.duplicatesMap THEN @ ELSE Append(@, cid)],
       "SKIPPED_DUPLICATE")

\* an earlier occurrence of a case_id that appears later (lines 120-127)
SkipDuplicate(st) ==
  LET cid == CaseIdValue(st)
      n == IF cid \in DOMAIN st.duplicatesMap THEN st.duplicatesMap[cid] ELSE 0
  IN SetTerm(
       [st EXCEPT
          !.errors = Append(@, [index |-> RowIndex(st), case_id |-> cid,
                                error |-> DuplicateMessage]),
          !.duplicatesMap = [c \in DOMAIN st.duplicatesMap \cup {cid} |->
                               IF c = cid THEN n + 1 ELSE st.duplicatesMap[c]],
          !.dupCaseIds = IF cid \in DOMAIN st.duplicatesMap THEN @ ELSE Append(@, cid)],
       "SKIPPED_DUPLICATE")

\* variant: the FAILED record keeps the row's own case_id when it has one
FailedCreateDataOwnKey(st, src, prio, original, message) ==
  [case_id |-> IF Truthy(src.case_id) THEN src.case_id
               ELSE FallbackId(st.importTimestamp, st.ci, st.i),
   applicant_name |-> IF Truthy(src.applicant_name) THEN src.applicant_name ELSE NULL,
   dob |-> safeDateFrom(src.dob),
   email |-> IF Truthy(src.email) THEN src.email ELSE NULL,
   phone |-> IF Truthy(src.phone) THEN src.phone ELSE NULL,
   category |-> IF Truthy(src.category) THEN src.category ELSE NULL,
   priority |-> prio,
   status |-> "FAILED",
   importedById |-> st.user.userId,
   importedAt |-> st.importTimestamp,
   errorMessage |-> Some(ErrorMessage(original, message))]

\* createData of the FAILED record of a row (lines 146-162 and 225-240)
FailedCreateData(st, src, prio, original, message) ==
  [case_id |-> FallbackId(st.importTimestamp, st.ci, st.i),
   applicant_name |-> IF Truthy(src.applicant_name) THEN src.applicant_name ELSE NULL,
   dob |-> safeDateFrom(src.dob),
   email |-> IF Truthy(src.email) THEN src.email ELSE NULL,
   phone |-> IF Truthy(src.phone) THEN src.phone ELSE NULL,
   category |-> IF Truthy(src.category) THEN src.category ELSE NULL,
   priority |-> prio,
   status |-> "FAILED",
   importedById |-> st.user.userId,
   importedAt |-> st.importTimestamp,
   errorMessage |-> Some(ErrorMessage(original, message))]

\* safeParse fails: count, report, and prepare the FAILED record (lines 129-162)
ValidationFailed(st) ==
  LET row == CurrentRow(st)
      msg == JoinMessages(SchemaIssues(row))
      originalCaseId == IF Truthy(row.case_id) THEN row.case_id ELSE NULL
  IN SetTerm(
       [st EXCEPT
          !.failCount = @ + 1,
          !.errors = Append(@, [index |-> RowIndex(st), case_id |-> row.case_id,
                                error |-> msg]),
          !.fallbackId = FallbackId(st.importTimestamp, st.ci, st.i),
          !.createData = FailedCreateData(st, row, parsePriorityValue(row.priority),
                           IF originalCaseId = NULL THEN "<none>" ELSE originalCaseId,
                           msg),
          !.pc = "create1"],
       "VALIDATION_FAILED")

\* the handler runs without yielding until its next persistence call: from
\* the row the loop is at, duplicates are skipped and a row that fails
\* validation stops at the insert of its FAILED record; a valid row stops at
\* its upsert (lines 114-131, 177-188)
RECURSIVE RunToAwait(_)
RunToAwait(st) ==
  IF st.pc /= "row" THEN st
  ELSE IF IsEarlierDuplicate(st) THEN RunToAwait(Advance(SkipDuplicate(st)))
  ELSE IF SchemaIssues(CurrentRow(st)) /= <<>> THEN ValidationFailed(st)
  ELSE [st EXCEPT !.pc = "upsert"]

\* the row is done (continue, or the end of the loop body)
NextRow(st) == RunToAwait(Advance(st))

\* variant: a body that is no list is taken for an empty list
IsRowListOrNothing(body) == TRUE

\* Array.isArray(raw), raw being the body or its `cases` (lines 77-78)
IsRowList(body) == body.isArray

\* the request arrives: the input check, the sort, the counters,
\* lastIndexForCase, the chunks and the run's timestamp (lines 77-108), then
\* the loop up to the first persistence call; `now` is what new Date()
\* returns: the time of the last reading or later.  keepOrder says whether
\* the history of the run records the permutation of the sort
BatchStart(r, body, user, now, budget, keepOrder) ==
  /\ run[r].pc = "idle"
  /\ (r > 1 => run[r - 1].pc /= "idle")
  /\ IF ~IsRowList(body)
       THEN /\ now = clock
            /\ run' = [run EXCEPT ![r] =
                         [IdleRun EXCEPT !.pc = "done", !.user = user,
                                         !.response = [NoResponse EXCEPT !.status = 400]]]
       ELSE /\ RowsInFlight + Len(body.cases) <= budget
            /\ LET raw == body.cases
                   rows == SortRows(raw)
                   st == [IdleRun EXCEPT
                            !.user = user, !.rows = rows,
                            !.totalRows = Len(rows),
                            !.lastIndexForCase = LastIndexForCase(rows),
                            !.importTimestamp = now,
                            !.received = Len(raw),
                            !.perm = IF keepOrder THEN SortPerm(raw) ELSE <<>>,
                            !.term = [n \in 1..Len(rows) |-> Pending],
                            !.wrote = [n \in 1..Len(rows) |-> 0]]
               IN run' = [run EXCEPT ![r] =
                            IF NumChunks(rows) > 0 THEN RunToAwait([st EXCEPT !.pc = "row"])
                            ELSE NextNote(st, 0)]
  /\ clock' = now
  /\ UNCHANGED <<cases, notes, importLogs, nextId, faults, put, view, upload>>

\* the `update` / `create` payload of the upsert (lines 177-215)
UpsertData(st) ==
  LET data == ParsedData(CurrentRow(st))
  IN [case_id |-> data.case_id,
      applicant_name |-> data.applicant_name,
      dob |-> IF Truthy(data.dob) THEN DateOf(data.dob) ELSE NULL,
      email |-> data.email,
      phone |-> data.phone,
      category |-> data.category,
      priority |-> data.priority,
      status |-> IF data.status = NULL THEN "COMPLETED" ELSE data.status,
      importedById |-> st.user.userId,
      importedAt |-> st.importTimestamp,
      errorMessage |-> None]

\* the upsert succeeds (lines 186-217)
UpsertOk(r) ==
  LET st == run[r]
      data == UpsertData(st)
  IN /\ st.pc = "upsert"
     /\ ~UpsertRejected(data)
     /\ cases' = UpsertCases(data, nextId, r, RowIndex(st))
     /\ nextId' = IF FindByCaseId(data.case_id) = {} THEN nextId + 1 ELSE nextId
     /\ run' = [run EXCEPT ![r] =
          NextRow(AddWrite(SetTerm([st EXCEPT !.successCount = @ + 1], "SUCCEEDED")))]
     /\ UNCHANGED <<notes, importLogs, clock, faults, put, view, upload>>

\* variant: successCount++ sits before the upsert, so a row whose upsert
\* throws is counted twice
PersistFailedAfterCount(st, message) ==
  LET data == ParsedData(CurrentRow(st))
  IN SetTerm(
       [st EXCEPT
          !.successCount = @ + 1,
          !.failCount = @ + 1,
          !.errors = Append(@, [index |-> RowIndex(st), case_id |-> data.case_id,
                                error |-> message]),
          !.fallbackId = FallbackId(st.importTimestamp, st.ci, st.i),
          !.createData = FailedCreateData(st, data, data.priority, data.case_id, message),
          !.pc = "create1"],
       "PERSIST_FAILED")

\* variant: a row whose upsert throws is reported but not counted
PersistFailedUncounted(st, message) ==
  LET data == ParsedData(CurrentRow(st))
  IN SetTerm(
       [st EXCEPT
          !.errors = Append(@, [index |-> RowIndex(st), case_id |-> data.case_id,
                                error |-> message]),
          !.fallbackId = FallbackId(st.importTimestamp, st.ci, st.i),
          !.createData = FailedCreateData(st, data, data.priority, data.case_id, message),
          !.pc = "create1"],
       "PERSIST_FAILED")

\* the catch block of the upsert: count, report, and prepare the FAILED
\* record (lines 218-240)
PersistFailed(st, message) ==
  LET data == ParsedData(CurrentRow(st))
  IN SetTerm(
       [st EXCEPT
          !.failCount = @ + 1,
          !.errors = Append(@, [index |-> RowIndex(st), case_id |-> data.case_id,
                                error |-> message]),
          !.fallbackId = FallbackId(st.importTimestamp, st.ci, st.i),
          \* parsePriorityValue(data.priority): data.priority is a number or
          \* null, which the helper returns unchanged
          !.createData = FailedCreateData(st, data, data.priority, data.case_id, message),
          !.pc = "create1"],
       "PERSIST_FAILED")

\* the upsert throws (line 218)
UpsertThrows(r) ==
  LET st == run[r]
      rejected == UpsertRejected(UpsertData(st))
  IN /\ st.pc = "upsert"
     /\ rejected \/ CanFault
     /\ faults' = IF rejected THEN faults ELSE faults + 1
     /\ run' = [run EXCEPT ![r] =
          PersistFailed(st, IF rejected THEN "Invalid value for status" ELSE "database error")]
     /\ UNCHANGED <<cases, notes, importLogs, nextId, clock, put, view, upload>>

\* variant: the failure is recorded on the case that holds the row's own
\* case_id, when there is one
CreateFailedMarksOriginal(r) ==
  LET st == run[r]
      own == FindByCaseId(CurrentRow(st).case_id)
  IN /\ st.pc = "create1"
     /\ ~CreateConflicts(st.createData)
     /\ cases' = IF own = {}
                   THEN cases \cup {CreatedCase(st.createData, nextId, r, RowIndex(st))}
                   ELSE { IF c \in own
                            THEN [c EXCEPT !.status = "FAILED",
                                           !.errorMessage = st.createData.errorMessage]
                            ELSE c : c \in cases }
     /\ nextId' = nextId + 1
     /\ run' = [run EXCEPT ![r] = NextRow(AddWrite(st))]
     /\ UNCHANGED <<notes, importLogs, clock, faults, put, view, upload>>

\* variant: the FAILED record is written with an upsert on the fallback id
CreateFailedUpserts(r) ==
  LET st == run[r]
  IN /\ st.pc = "create1"
     /\ cases' = UpsertCases(st.createData, nextId, r, RowIndex(st))
     /\ nextId' = nextId + 1
     /\ run' = [run EXCEPT ![r] = NextRow(AddWrite(st))]
     /\ UNCHANGED <<notes, importLogs, clock, faults, put, view, upload>>

\* the first insert of the FAILED record, under the fallback id (lines 164, 242)
CreateFailedOk(r) ==
  LET st == run[r]
  IN /\ st.pc = "create1"
     /\ ~CreateConflicts(st.createData)
     /\ cases' = cases \cup {CreatedCase(st.createData, nextId, r, RowIndex(st))}
     /\ nextId' = nextId + 1
     /\ run' = [run EXCEPT ![r] = NextRow(AddWrite(st))]
     /\ UNCHANGED <<notes, importLogs, clock, faults, put, view, upload>>

\* the first insert throws: the case_id gets a random suffix (lines 165-167, 243-244)
CreateFailedThrows(r) ==
  LET st == run[r]
  IN /\ st.pc = "create1"
     /\ CreateConflicts(st.createData) \/ CanFault
     /\ faults' = IF CreateConflicts(st.createData) THEN faults ELSE faults + 1
     /\ \E sfx \in Suffixes :
          run' = [run EXCEPT ![r] =
                    [st EXCEPT !.createData.case_id = SuffixedId(st.fallbackId, sfx),
                               !.pc = "create2"]]
     /\ UNCHANGED <<cases, notes, importLogs, nextId, clock, put, view, upload>>

\* the second insert, under the suffixed id (lines 168, 245)
RetryCreateOk(r) ==
  LET st == run[r]
  IN /\ st.pc = "create2"
     /\ ~CreateConflicts(st.createData)
     /\ cases' = cases \cup {CreatedCase(st.createData, nextId, r, RowIndex(st))}
     /\ nextId' = nextId + 1
     /\ run' = [run EXCEPT ![r] = NextRow(AddWrite(st))]
     /\ UNCHANGED <<notes, importLogs, clock, faults, put, view, upload>>

\* variant: without the try around the two inserts the second failure reaches
\* the handler's outer catch, which answers 500
RetryCreateAborts(r) ==
  LET st == run[r]
  IN /\ st.pc = "create2"
     /\ CreateConflicts(st.createData) \/ CanFault
     /\ faults' = IF CreateConflicts(st.createData) THEN faults ELSE faults + 1
     /\ run' = [run EXCEPT ![r] =
                  [st EXCEPT !.pc = "done", !.response = [NoResponse EXCEPT !.status = 500]]]
     /\ UNCHANGED <<cases, notes, importLogs, nextId, clock, put, view, upload>>

\* variant: the second failure is followed by another attempt under a new suffix
RetryCreateAgain(r) ==
  LET st == run[r]
  IN /\ st.pc = "create2"
     /\ CreateConflicts(st.createData) \/ CanFault
     /\ faults' = IF CreateConflicts(st.createData) THEN faults ELSE faults + 1
     /\ \E sfx \in Suffixes :
          run' = [run EXCEPT ![r] =
                    [st EXCEPT !.createData.case_id = SuffixedId(st.fallbackId, sfx)]]
     /\ UNCHANGED <<cases, notes, importLogs, nextId, clock, put, view, upload>>

\* the second insert throws too: logged, the row stays failed (lines 170-172, 247-249)
RetryCreateThrows(r) ==
  LET st == run[r]
  IN /\ st.pc = "create2"
     /\ CreateConflicts(st.createData) \/ CanFault
     /\ faults' = IF CreateConflicts(st.createData) THEN faults ELSE faults + 1
     /\ run' = [run EXCEPT ![r] = NextRow(st)]
     /\ UNCHANGED <<cases, notes, importLogs, nextId, clock, put, view, upload>>

\* `Duplicate rows in import: ${n} earlier occurrence(s) ignored`
NoteContent(n) ==
  "Duplicate rows in import: " \o ToString(n) \o " earlier occurrence(s) ignored"

\* findUnique for the next duplicated case_id (lines 258-261); a missing case
\* is skipped, a throw leaves the whole post-pass (line 272)
NoteFind(r) ==
  LET st == run[r]
      cid == st.dupCaseIds[st.k + 1]
      found == FindByCaseId(cid)
  IN /\ st.pc = "noteFind"
     /\ \/ /\ found /= {}
           /\ run' = [run EXCEPT ![r] =
                        [st EXCEPT !.theCase = (CHOOSE c \in found : TRUE).id,
                                   !.pc = "noteCreate"]]
           /\ UNCHANGED faults
        \/ /\ found = {}
           /\ run' = [run EXCEPT ![r] = NextNote(st, st.k + 1)]
           /\ UNCHANGED faults
        \/ /\ CanFault
           /\ faults' = faults + 1
           /\ run' = [run EXCEPT ![r] = AfterNotes([st EXCEPT !.noteFailed = TRUE])]
     /\ UNCHANGED <<cases, notes, importLogs, nextId, clock, put, view, upload>>

\* prisma.note.create for the case found (lines 262-269)
NoteCreate(r) ==
  LET st == run[r]
      cid == st.dupCaseIds[st.k + 1]
  IN /\ st.pc = "noteCreate"
     /\ \/ /\ notes' = notes \cup
                  {[id |-> nextId, caseId |-> st.theCase,
                    content |-> NoteContent(st.duplicatesMap[cid]),
                    authorId |-> st.user.userId, g_run |-> r]}
           /\ nextId' = nextId + 1
           /\ run' = [run EXCEPT ![r] = NextNote(st, st.k + 1)]
           /\ UNCHANGED faults
        \/ /\ CanFault
           /\ faults' = faults + 1
           /\ run' = [run EXCEPT ![r] = AfterNotes([st EXCEPT !.noteFailed = TRUE])]
           /\ UNCHANGED <<notes, nextId>>
     /\ UNCHANGED <<cases, importLogs, clock, put, view, upload>>

\* variant: the import log is stamped with the time of its creation
ImportLogDataStampedLate(st) ==
  [userId |-> st.user.userId, totalRows |-> st.totalRows,
   successCount |-> st.successCount, failCount |-> st.failCount,
   createdAt |-> clock]

\* data of prisma.importLog.create (lines 282-288)
ImportLogData(st) ==
  [userId |-> st.user.userId, totalRows |-> st.totalRows,
   successCount |-> st.successCount, failCount |-> st.failCount,
   createdAt |-> st.importTimestamp]

\* res.json({ totalRows, successCount, failCount, errors, importLogId })
Report(st, logId) ==
  [status |-> 200, totalRows |-> st.totalRows, successCount |-> st.successCount,
   failCount |-> st.failCount, errors |-> st.errors, importLogId |-> logId]

\* variant: the import log is written as soon as the rows are done, before
\* the notes of the duplicates
FinalizeBeforeNotes(r) ==
  LET st == run[r]
  IN /\ st.pc \in {"log", "noteFind"}
     /\ Truthy(st.user.userId)
     /\ { l \in importLogs : l.g_run = r } = {}
     /\ importLogs' = importLogs \cup
            {[id |-> nextId, userId |-> ImportLogData(st).userId,
              totalRows |-> ImportLogData(st).totalRows,
              successCount |-> ImportLogData(st).successCount,
              failCount |-> ImportLogData(st).failCount,
              createdAt |-> ImportLogData(st).createdAt,
              g_run |-> r]}
     /\ nextId' = nextId + 1
     /\ run' = [run EXCEPT ![r] =
                  IF st.pc = "log"
                    THEN [st EXCEPT !.pc = "done", !.response = Report(st, Some(nextId))]
                    ELSE st]
     /\ UNCHANGED <<cases, notes, clock, faults, put, view, upload>>

\* variant: without the try around prisma.importLog.create its failure
\* reaches the handler's outer catch, which answers 500
FinalizeLogFailureAborts(r) ==
  LET st == run[r]
  IN /\ st.pc = "log"
     /\ \/ /\ Truthy(st.user.userId)
           /\ importLogs' = importLogs \cup
                  {[id |-> nextId, userId |-> ImportLogData(st).userId,
                    totalRows |-> ImportLogData(st).totalRows,
                    successCount |-> ImportLogData(st).successCount,
                    failCount |-> ImportLogData(st).failCount,
                    createdAt |-> ImportLogData(st).createdAt,
                    g_run |-> r]}
           /\ nextId' = nextId + 1
           /\ run' = [run EXCEPT ![r] =
                        [st EXCEPT !.pc = "done", !.response = Report(st, Some(nextId))]]
           /\ UNCHANGED faults
        \/ /\ Truthy(st.user.userId)
           /\ CanFault
           /\ faults' = faults + 1
           /\ run' = [run EXCEPT ![r] =
                        [st EXCEPT !.pc = "done", !.logFailed = TRUE,
                                   !.response = [NoResponse EXCEPT !.status = 500]]]
           /\ UNCHANGED <<importLogs, nextId>>
        \/ /\ ~Truthy(st.user.userId)
           /\ run' = [run EXCEPT ![r] =
                        [st EXCEPT !.pc = "done", !.response = Report(st, None)]]
           /\ UNCHANGED <<importLogs, nextId, faults>>
     /\ UNCHANGED <<cases, notes, clock, put, view, upload>>

\* variant: when the import log cannot be written the handler sends nothing
FinalizeOrHang(r) ==
  LET st == run[r]
  IN /\ st.pc = "log"
     /\ \/ /\ Truthy(st.user.userId)
           /\ importLogs' = importLogs \cup
                  {[id |-> nextId, userId |-> ImportLogData(st).userId,
                    totalRows |-> ImportLogData(st).totalRows,
                    successCount |-> ImportLogData(st).successCount,
                    failCount |-> ImportLogData(st).failCount,
                    createdAt |-> ImportLogData(st).createdAt,
                    g_run |-> r]}
           /\ nextId' = nextId + 1
           /\ run' = [run EXCEPT ![r] =
                        [st EXCEPT !.pc = "done", !.response = Report(st, Some(nextId))]]
           /\ UNCHANGED faults
        \/ /\ Truthy(st.user.userId)
           /\ CanFault
           /\ faults' = faults + 1
           /\ run' = [run EXCEPT ![r] = [st EXCEPT !.pc = "hung", !.logFailed = TRUE]]
           /\ UNCHANGED <<importLogs, nextId>>
        \/ /\ ~Truthy(st.user.userId)
           /\ run' = [run EXCEPT ![r] =
                        [st EXCEPT !.pc = "done", !.response = Report(st, None)]]
           /\ UNCHANGED <<importLogs, nextId, faults>>
     /\ UNCHANGED <<cases, notes, clock, put, view, upload>>

\* the import log and the response (lines 276-298)
Finalize(r) ==
  LET st == run[r]
  IN /\ st.pc = "log"
     /\ \/ /\ Truthy(st.user.userId)
           /\ importLogs' = importLogs \cup
                  {[id |-> nextId, userId |-> ImportLogData(st).userId,
                    totalRows |-> ImportLogData(st).totalRows,
                    successCount |-> ImportLogData(st).successCount,
                    failCount |-> ImportLogData(st).failCount,
                    createdAt |-> ImportLogData(st).createdAt,
                    g_run |-> r]}
           /\ nextId' = nextId + 1
           /\ run' = [run EXCEPT ![r] =
                        [st EXCEPT !.pc = "done", !.response = Report(st, Some(nextId))]]
           /\ UNCHANGED faults
        \/ /\ Truthy(st.user.userId)
           /\ CanFault
           /\ faults' = faults + 1
           /\ run' = [run EXCEPT ![r] =
                        [st EXCEPT !.pc = "done", !.logFailed = TRUE,
                                   !.response = Report(st, None)]]
           /\ UNCHANGED <<importLogs, nextId>>
        \/ /\ ~Truthy(st.user.userId)
           /\ run' = [run EXCEPT ![r] =
                        [st EXCEPT !.pc = "done", !.response = Report(st, None)]]
           /\ UNCHANGED <<importLogs, nextId, faults>>
     /\ UNCHANGED <<cases, notes, clock, put, view, upload>>

\* -------------------------------------------------------- PUT /api/cases/:caseId
\* the bodies of the edits
PutPayloads ==
  { [NoPayload EXCEPT !.status = "COMPLETED"],
    [NoPayload EXCEPT !.applicant_name = "edited", !.priority = "HIGH"] }

\* the :caseId parameter: the primary id of a case (a UUID), or a text that
\* is looked up as a business case_id
PutParams ==
  { [uuid |-> Some(c.id), text |-> "uuid"] : c \in cases }
  \cup { [uuid |-> None, text |-> t] : t \in {"A", "zz"} }

\* findUnique by id when the parameter is a UUID, then by case_id (lines 507-513)
PutLookup(param) ==
  LET byId == { c \in cases : c.id \in param.uuid }
  IN IF byId /= {} THEN byId ELSE FindByCaseId(param.text)

\* String(v) of a string or null
StringOf(v) == IF v = NULL THEN "null" ELSE v

\* only importer or ADMIN can update (lines 516-521)
PutForbidden(user, existing) ==
  LET requesterId == IF user.userId = NULL THEN "" ELSE user.userId
      requesterRole == IF user.role = NULL THEN "" ELSE user.role
  IN requesterRole /= "ADMIN" /\ StringOf(existing.importedById) /= requesterId

\* variant: a field the payload does not have is written as null
PutUpdatedCaseOverwrites(c, payload) ==
  [c EXCEPT
     !.applicant_name = IF payload.applicant_name = UNDEF THEN NULL ELSE payload.applicant_name,
     !.email = IF payload.email = UNDEF THEN NULL ELSE payload.email,
     !.phone = IF payload.phone = UNDEF THEN NULL ELSE payload.phone,
     !.category = IF payload.category = UNDEF THEN NULL ELSE payload.category,
     !.status = IF payload.status = UNDEF THEN @ ELSE payload.status,
     !.dob = IF payload.dob = UNDEF THEN NULL ELSE safeDateFrom(payload.dob),
     !.priority = IF payload.priority = UNDEF THEN None ELSE parsePriorityValue(payload.priority),
     !.g_edited = TRUE]

\* the row prisma.case.update({ where: { id }, data: updateData }) leaves
\* (lines 523-544)
PutUpdatedCase(c, payload) ==
  [c EXCEPT
     !.applicant_name = IF payload.applicant_name = UNDEF THEN @ ELSE payload.applicant_name,
     !.email = IF payload.email = UNDEF THEN @ ELSE payload.email,
     !.phone = IF payload.phone = UNDEF THEN @ ELSE payload.phone,
     !.category = IF payload.category = UNDEF THEN @ ELSE payload.category,
     !.status = IF payload.status = UNDEF THEN @ ELSE payload.status,
     !.dob = IF payload.dob = UNDEF THEN @ ELSE safeDateFrom(payload.dob),
     !.priority = IF payload.priority = UNDEF THEN @ ELSE parsePriorityValue(payload.priority),
     !.g_edited = TRUE]

\* the update is rejected by the database: status is not a CaseStatus
PutRejected(payload) == payload.status /= UNDEF /\ payload.status \notin CaseStatus

\* the request arrives: lookup and permission check (lines 499-521)
PutFind(p, user, param, payload) ==
  LET found == PutLookup(param)
      existing == CHOOSE c \in found : TRUE
  IN /\ put[p].pc = "idle"
     /\ (p > 1 => put[p - 1].pc /= "idle")
     /\ put' = [put EXCEPT ![p] =
          IF found = {} THEN [IdlePut EXCEPT !.pc = "done", !.user = user, !.status = 404]
          ELSE IF PutForbidden(user, existing)
            THEN [IdlePut EXCEPT !.pc = "done", !.user = user, !.status = 403,
                                 !.existing = existing.id]
          ELSE [IdlePut EXCEPT !.pc = "update", !.user = user, !.payload = payload,
                               !.existing = existing.id]]
     /\ UNCHANGED <<cases, notes, importLogs, nextId, clock, faults, run, view, upload>>

\* prisma.case.update by primary id, and the response (lines 536-550)
PutUpdate(p) ==
  LET st == put[p]
  IN /\ st.pc = "update"
     /\ \/ /\ ~PutRejected(st.payload)
           /\ cases' = { IF c.id = st.existing THEN PutUpdatedCase(c, st.payload) ELSE c :
                         c \in cases }
           /\ put' = [put EXCEPT ![p] = [st EXCEPT !.pc = "done", !.status = 200]]
           /\ UNCHANGED faults
        \/ /\ PutRejected(st.payload) \/ CanFault
           /\ faults' = IF PutRejected(st.payload) THEN faults ELSE faults + 1
           /\ put' = [put EXCEPT ![p] = [st EXCEPT !.pc = "done", !.status = 500]]
           /\ UNCHANGED cases
     /\ UNCHANGED <<notes, importLogs, nextId, clock, run, view, upload>>

\* ----------------------------------------------------------- specifications
\* ------------------------------------------------------------ GET /api/cases
\* the callers of the read paths: the callers of the import, and an operator
\* who imported nothing
ReadCallers == Callers \cup { [userId |-> "u3", role |-> "OPERATOR"] }

\* limit (number, default 25, max 100) (line 318)
DefaultLimit == 25
MaxLimit == 100

\* Math.min(Number(limitRaw) || 25, 100); 0 and NaN are falsy
LimitOf(limitRaw) ==
  LET n == IF limitRaw = NULL THEN None ELSE NumberOf(limitRaw)
      given == IF n = None THEN DefaultLimit ELSE CHOOSE v \in n : TRUE
      orDefault == IF given = 0 THEN DefaultLimit ELSE given
  IN IF orDefault < MaxLimit THEN orDefault ELSE MaxLimit

\* sortDir && String(sortDir).toLowerCase() === 'asc' ? 'asc' : 'desc' (line 320)
DirOf(sortDir) == IF sortDir \in {"asc", "ASC", "Asc"} THEN "asc" ELSE "desc"

\* new Date(String(s)).getTime() of a query string: {} is an invalid date
InstantOf(s) ==
  CASE s = "1970-01-01T00:00:00.002Z" -> Some(2)
    [] OTHER -> None

\* { contains: s, mode: 'insensitive' } on the texts of the model
ContainsInsensitive(text, s) ==
  CASE s = "b" -> text \in {"B", "bad", "bee"}
    [] s = "a" -> text \in {"A", "bad"}
    [] OTHER -> FALSE

\* a query string without filters
NoQuery ==
  [status |-> NULL, category |-> NULL, priority |-> NULL, dateFrom |-> NULL,
   dateTo |-> NULL, search |-> NULL, sortDir |-> NULL]

\* the where clause of GET /api/cases (lines 323-357)
Where(user, q, c) ==
  LET requesterId == IF user.userId = NULL THEN "" ELSE user.userId
      requesterRole == IF user.role = NULL THEN "" ELSE user.role
  IN /\ requesterRole /= "ADMIN" => c.importedById = requesterId
     /\ Truthy(q.status) => c.status = q.status
     /\ Truthy(q.category) => c.category = q.category
     /\ (Truthy(q.priority) /\ NumberOf(q.priority) /= None) => c.priority = NumberOf(q.priority)
     /\ (Truthy(q.dateFrom) /\ InstantOf(q.dateFrom) /= None) =>
           \A d \in InstantOf(q.dateFrom) : c.importedAt >= d
     /\ (Truthy(q.dateTo) /\ InstantOf(q.dateTo) /= None) =>
           \A d \in InstantOf(q.dateTo) : c.importedAt =< d
     /\ Truthy(q.search) =>
           \/ (c.case_id /= NULL /\ ContainsInsensitive(c.case_id, q.search))
           \/ (c.applicant_name /= NULL /\ ContainsInsensitive(c.applicant_name, q.search))

\* orderBy: [{ importedAt: dir }, { id: dir }] (lines 361-364)
ComesBefore(a, b, dir) ==
  IF dir = "asc"
    THEN a.importedAt < b.importedAt \/ (a.importedAt = b.importedAt /\ a.id < b.id)
    ELSE a.importedAt > b.importedAt \/ (a.importedAt = b.importedAt /\ a.id > b.id)

RECURSIVE Ordered(_, _)
Ordered(S, dir) ==
  IF S = {} THEN <<>>
  ELSE LET first == CHOOSE a \in S : \A b \in S \ {a} : ComesBefore(a, b, dir)
       IN <<first>> \o Ordered(S \ {first}, dir)

\* the first n elements of a sequence, and the rest
Take(s, n) == SubSeq(s, 1, IF n < Len(s) THEN n ELSE Len(s))
Drop(s, n) == SubSeq(s, n + 1, Len(s))

\* prisma.case.findMany({ where, orderBy, take, skip, cursor }): the rows
\* that match, from the row of the cursor on, without the first `skip`
FindMany(matching, dir, take, skip, cursor) ==
  LET at == { c \in cases : c.id \in cursor }
      from == IF cursor = None THEN matching
              ELSE { c \in matching : \E a \in at : c = a \/ ComesBefore(a, c, dir) }
  IN Take(Drop(Ordered(from, dir), skip), take)

\* the id of the extra item becomes the cursor (lines 372-377)
NextCursorOf(items, limit) ==
  IF Len(items) > limit THEN Some(items[Len(items)].id) ELSE None

\* res.json({ items, nextCursor, limit }) (lines 359-379)
ListResponse(user, q, limitRaw, cursor) ==
  LET limit == LimitOf(limitRaw)
      items == FindMany({ c \in cases : Where(user, q, c) }, DirOf(q.sortDir),
                        limit + 1, IF cursor = None THEN 0 ELSE 1, cursor)
  IN [items |-> IF Len(items) > limit THEN Take(items, Len(items) - 1) ELSE items,
      nextCursor |-> NextCursorOf(items, limit), limit |-> limit]

\* the pages a client gets that asks for the first page and then, as long
\* as it is given a cursor, for the page after that cursor; a listing of n
\* cases has no more than n + 1 pages
RECURSIVE PagesFrom(_, _, _, _, _)
PagesFrom(user, q, limitRaw, cursor, fuel) ==
  LET res == ListResponse(user, q, limitRaw, cursor)
  IN IF res.nextCursor = None \/ fuel = 0 THEN <<res.items>>
     ELSE <<res.items>> \o PagesFrom(user, q, limitRaw, res.nextCursor, fuel - 1)

Pages(user, q, limitRaw) == PagesFrom(user, q, limitRaw, None, Cardinality(cases))

\* ---------------------------------------------------- GET /api/cases/:caseId
\* non-admins can only view cases they imported (lines 421-426)
ViewForbidden(user, c) ==
  LET requesterId == IF user.userId = NULL THEN "" ELSE user.userId
      requesterRole == IF user.role = NULL THEN "" ELSE user.role
  IN requesterRole /= "ADMIN" /\ StringOf(c.importedById) /= requesterId

\* prisma.importLog.findFirst({ where: { createdAt, userId } }) (line 432)
ImportLogsOf(c) ==
  { l \in importLogs : l.createdAt = c.importedAt /\ l.userId = c.importedById }

\* res.json({ case, importLogId, timeline, notes }), or 404, or 403
\* (lines 387-464); findFirst returns any one of the logs that match
CaseResponse(user, param) ==
  LET found == PutLookup(param)
      allowed == { c \in found : ~ViewForbidden(user, c) }
  IN [status |-> IF found = {} THEN 404 ELSE IF allowed = {} THEN 403 ELSE 200,
      case |-> allowed,
      notes |-> { n \in notes : \E c \in allowed : n.caseId = c.id },
      importLogIds |-> { l.id : l \in UNION { ImportLogsOf(c) : c \in allowed } }]

\* ------------------------------------------------- GET /api/import-logs/:id
\* cases with the log's timestamp and an errorMessage (importLogs.js 36-42)
FailedRows(log) ==
  { c \in cases : c.importedAt = log.createdAt /\ c.errorMessage /= None }

\* res.json({ importLog: log, failedRows }), or 404 (importLogs.js 28-48)
ImportLogResponse(user, id) ==
  LET found == { l \in importLogs : l.id = id }
  IN [status |-> IF found = {} THEN 404 ELSE 200,
      importLog |-> found,
      failedRows |-> UNION { FailedRows(log) : log \in found }]

\* ---------------------------------------------- POST /api/cases/:caseId/notes
\* a note on the case with the given id, by any caller (lines 467-493)
PostNote(user, id) ==
  /\ \E c \in cases : c.id = id
  /\ Cardinality({ n \in notes : n.g_run = 0 }) < MaxPostedNotes
  /\ notes' = notes \cup {[id |-> nextId, caseId |-> id, content |-> "posted",
                           authorId |-> user.userId, g_run |-> 0]}
  /\ nextId' = nextId + 1
  /\ UNCHANGED <<cases, importLogs, clock, faults, run, put, view, upload>>

\* ---------------------------------------------- DELETE /api/import-logs/:id
\* the width of the window around the log's timestamp, in ticks of the clock
DeleteTolerance == 1

\* variant: the cascade takes every case of the window, whatever its status
CascadeCasesAnyStatus(log) ==
  { c \in cases : /\ c.importedAt - log.createdAt =< DeleteTolerance
                  /\ log.createdAt - c.importedAt =< DeleteTolerance }

\* the FAILED cases whose timestamp lies in the window of the log's
CascadeCases(log) ==
  { c \in cases : /\ c.status = "FAILED"
                  /\ c.importedAt - log.createdAt =< DeleteTolerance
                  /\ log.createdAt - c.importedAt =< DeleteTolerance }

\* ownership or elevated role
DeleteForbidden(user, log) ==
  LET requesterId == IF user.userId = NULL THEN "" ELSE user.userId
      requesterRole == IF user.role = NULL THEN "" ELSE user.role
  IN requesterRole /= "ADMIN" /\ StringOf(log.userId) /= requesterId

\* the cascade in one transaction: the notes of the cases, the cases, the
\* log; a failure of the transaction leaves the three tables as they were
DeleteImportLog(user, id) ==
  LET found == { l \in importLogs : l.id = id }
  IN \/ /\ found = {}
        /\ view' = [NoView EXCEPT !.kind = "delete", !.user = user, !.status = 404]
        /\ UNCHANGED <<cases, notes, importLogs, nextId, clock, faults, run, put, upload>>
     \/ \E log \in found :
          /\ DeleteForbidden(user, log)
          /\ view' = [NoView EXCEPT !.kind = "delete", !.user = user, !.status = 403,
                                    !.log = Some(log.id)]
          /\ UNCHANGED <<cases, notes, importLogs, nextId, clock, faults, run, put, upload>>
     \/ \E log \in found :
          /\ ~DeleteForbidden(user, log)
          /\ notes' = { n \in notes : \A c \in CascadeCases(log) : n.caseId /= c.id }
          /\ cases' = cases \ CascadeCases(log)
          /\ importLogs' = importLogs \ {log}
          /\ view' = [NoView EXCEPT !.kind = "delete", !.user = user, !.status = 200,
                                    !.log = Some(log.id),
                                    !.removed = Cardinality(CascadeCases(log)),
                                    !.g_notes = Cardinality(notes) - Cardinality(notes')]
          /\ UNCHANGED <<nextId, clock, faults, run, put, upload>>
     \/ \E log \in found :
          /\ ~DeleteForbidden(user, log)
          /\ CanFault
          /\ faults' = faults + 1
          /\ view' = [NoView EXCEPT !.kind = "delete", !.user = user, !.status = 500,
                                    !.log = Some(log.id)]
          /\ UNCHANGED <<cases, notes, importLogs, nextId, clock, run, put, upload>>

\* the steps of a batch run after its start
BatchStep(r) ==
  \/ UpsertOk(r)
  \/ UpsertThrows(r)
  \/ CreateFailedOk(r)
  \/ CreateFailedThrows(r)
  \/ RetryCreateOk(r)
  \/ RetryCreateThrows(r)
  \/ NoteFind(r)
  \/ NoteCreate(r)
  \/ Finalize(r)

\* concurrent batch imports
Next ==
  \/ \E r \in { q \in Runs : run[q].pc = "idle" } :
       \E body \in Bodies(MaxRows), user \in BatchCallers, now \in clock..MaxClock :
         BatchStart(r, body, user, now, MaxTotalRows, FALSE)
  \/ \E r \in Runs : BatchStep(r)

Spec == Init /\ [][Next]_vars

\* one batch import at a time or two concurrent ones of few rows, with the
\* history of the sort kept
NextOrder ==
  \/ \E r \in { q \in Runs : run[q].pc = "idle" } :
       \E body \in Bodies(MaxOrderRows), user \in BatchCallers, now \in clock..MaxClock :
         BatchStart(r, body, user, now, MaxOrderRows, TRUE)
  \/ \E r \in Runs : BatchStep(r)

SpecOrder == Init /\ [][NextOrder]_vars

\* batch imports of few rows and single-case edits, interleaved
NextEdit ==
  \/ \E r \in { q \in Runs : run[q].pc = "idle" } :
       \E body \in Bodies(MaxEditRows), user \in BatchCallers, now \in clock..MaxClock :
         BatchStart(r, body, user, now, MaxEditRows, FALSE)
  \/ \E r \in Runs : BatchStep(r)
  \/ \E p \in { q \in Puts : put[q].pc = "idle" } :
       \E user \in Callers, param \in PutParams, payload \in PutPayloads :
         PutFind(p, user, param, payload)
  \/ \E p \in Puts : PutUpdate(p)

SpecEdit == Init /\ [][NextEdit]_vars

\* batch imports of rows that differ in the shape of their case_id and
\* priority, with the history of the sort kept
NextFields ==
  \/ \E r \in { q \in Runs : run[q].pc = "idle" } :
       \E body \in FieldBodies(MaxFieldRows), user \in BatchCallers, now \in clock..MaxClock :
         BatchStart(r, body, user, now, MaxFieldRows, TRUE)
  \/ \E r \in Runs : BatchStep(r)

SpecFields == Init /\ [][NextFields]_vars

\* the queries of the listing in the model
Queries ==
  { NoQuery,
    [NoQuery EXCEPT !.sortDir = "asc"],
    [NoQuery EXCEPT !.status = "FAILED", !.sortDir = "ASC"],
    [NoQuery EXCEPT !.search = "b", !.dateFrom = "1970-01-01T00:00:00.002Z"] }

\* the limits a client asks for: none, and pages of one or two cases
Limits == {NULL, "1", "2"}

\* the rows of the imports that are read back: one that is stored, one the
\* database rejects
ReadRowPool ==
  { Row("A", "old", "a@x.com", "3", NULL, "2001-02-03"),
    Row("B", "bee", NULL, NULL, "BOGUS", NULL) }

ReadBodies(n) ==
  { [isArray |-> TRUE, cases |-> rows] : rows \in UNION { [1..m -> ReadRowPool] : m \in 1..n } }

\* batch imports of the rows that are read back
NextRead ==
  \/ \E r \in { q \in Runs : run[q].pc = "idle" } :
       \E body \in ReadBodies(MaxReadRows), user \in BatchCallers, now \in clock..MaxClock :
         BatchStart(r, body, user, now, MaxReadRows, FALSE)
  \/ \E r \in Runs : BatchStep(r)

SpecRead == Init /\ [][NextRead]_vars

\* rows that declare a status: FAILED, which the database accepts, and one
\* it rejects
StatusRowPool ==
  { Row("A", "old", "a@x.com", "3", "FAILED", "2001-02-03"),
    Row("B", "bee", NULL, NULL, "BOGUS", NULL) }

StatusBodies(n) ==
  { [isArray |-> TRUE, cases |-> rows] : rows \in UNION { [1..m -> StatusRowPool] : m \in 1..n } }

\* batch imports of rows that declare a status
NextStatus ==
  \/ \E r \in { q \in Runs : run[q].pc = "idle" } :
       \E body \in StatusBodies(MaxStatusRows), user \in BatchCallers, now \in clock..MaxClock :
         BatchStart(r, body, user, now, MaxStatusRows, FALSE)
  \/ \E r \in Runs : BatchStep(r)

SpecStatus == Init /\ [][NextStatus]_vars

\* rows with two keys that are stored, so that a file can have two
\* duplicated keys, and a row the database rejects
NoteRowPool ==
  { Row("A", "old", "a@x.com", "3", NULL, "2001-02-03"),
    Row("C2", "two", NULL, "3", NULL, NULL),
    Row("B", "bee", NULL, NULL, "BOGUS", NULL) }

NoteBodies(n) ==
  { [isArray |-> TRUE, cases |-> rows] : rows \in UNION { [1..m -> NoteRowPool] : m \in 1..n } }

\* batch imports of files with up to two duplicated keys
NextNotes ==
  \/ \E r \in { q \in Runs : run[q].pc = "idle" } :
       \E body \in NoteBodies(MaxNoteRows), user \in BatchCallers, now \in clock..MaxClock :
         BatchStart(r, body, user, now, MaxNoteRows, FALSE)
  \/ \E r \in Runs : BatchStep(r)

SpecNotes == Init /\ [][NextNotes]_vars

\* who posts notes and who deletes import logs in the model: the importer,
\* an administrator and an operator who imported nothing
NoteCallers == { u \in ReadCallers : u.userId = "u3" }
DeleteCallers == { u \in ReadCallers : u.userId /= NULL }

\* batch imports of few rows, with notes and the deletion of import logs in
\* between
NextDelete ==
  \/ \E r \in { q \in Runs : run[q].pc = "idle" } :
       \E body \in ReadBodies(MaxDeleteRows), user \in BatchCallers, now \in clock..MaxDeleteClock :
         BatchStart(r, body, user, now, MaxDeleteRows, FALSE)
  \/ \E r \in Runs : BatchStep(r)
  \/ \E user \in NoteCallers, id \in 1..nextId : PostNote(user, id)
  \/ \E user \in DeleteCallers, id \in 1..nextId : DeleteImportLog(user, id)

SpecDelete == Init /\ [][NextDelete]_vars

\* -------------------------------------------------------------- properties
\* the runs whose body was a list of rows
ListRuns == { r \in Runs : run[r].pc /= "idle" /\ run[r].response.status /= 400 }

\* positions are 1-based here: position p is the row of index p - 1
Positions(r) == 1..Len(run[r].rows)
Processed(r) == { p \in Positions(r) : run[r].term[p] /= Pending }
Failed(r) == { p \in Positions(r) : run[r].term[p] \in {"VALIDATION_FAILED", "PERSIST_FAILED"} }

\* the row at p has a non-empty case_id that occurs again later in the list
EarlierOccurrence(rows, p) ==
  /\ Truthy(rows[p].case_id)
  /\ \E q \in (p + 1)..Len(rows) : rows[q].case_id = rows[p].case_id

\* the entries of errors about the row at position p
ErrorsAbout(r, p) == { j \in 1..Len(run[r].errors) : run[r].errors[j].index = p - 1 }

\* the case records last written by the row at position p of run r
WrittenBy(r, p) == { c \in cases : c.g_run = r /\ c.g_pos = p - 1 }

\* C1: in one batch run, every occurrence of a non-empty case_id that is not
\* the last one in processing order is skipped: it adds exactly one entry to
\* errors, with the duplicate message, leaves failCount and successCount
\* alone and writes no case record; the last occurrence is not skipped.
C1_EarlierDuplicatesSkipped ==
  \A r \in ListRuns :
    LET st == run[r]
    IN /\ \A p \in Processed(r) :
            IF EarlierOccurrence(st.rows, p)
              THEN /\ st.term[p] = "SKIPPED_DUPLICATE"
                   /\ Cardinality(ErrorsAbout(r, p)) = 1
                   /\ \A j \in ErrorsAbout(r, p) :
                        /\ st.errors[j].error = DuplicateMessage
                        /\ st.errors[j].case_id = st.rows[p].case_id
                   /\ st.wrote[p] = 0
                   /\ WrittenBy(r, p) = {}
              ELSE st.term[p] /= "SKIPPED_DUPLICATE"
       /\ st.successCount + st.failCount
            = Cardinality({ p \in Processed(r) : ~EarlierOccurrence(st.rows, p) })

\* a run has skipped an earlier occurrence and has written the last one
C1_Witness ==
  \E r \in ListRuns : \E p \in Processed(r), q \in Processed(r) :
    /\ p < q
    /\ run[r].rows[p].case_id = run[r].rows[q].case_id
    /\ run[r].term[p] = "SKIPPED_DUPLICATE"
    /\ run[r].term[q] = "SUCCEEDED"
    /\ WrittenBy(r, q) /= {}

\* the fallback keys a failed row at position p of run r may be stored under
FallbackKeys(r, p) ==
  LET base == FallbackId(run[r].importTimestamp, (p - 1) \div ChunkSize, (p - 1) % ChunkSize)
  IN {base} \cup { SuffixedId(base, sfx) : sfx \in Suffixes }

\* C2: a row that failed validation or whose upsert failed is stored, if at
\* all, as one case of status FAILED under FAILED-<timestamp>-<batch>-<offset>
\* or that key with a suffix, never under its own case_id, and the
\* errorMessage names the row's case_id, or <none> when it has none.
C2_FailedRowsUnderFallbackKey ==
  \A r \in ListRuns : \A p \in Failed(r) :
    /\ run[r].wrote[p] <= 1
    /\ Cardinality(WrittenBy(r, p)) = run[r].wrote[p]
    /\ \A c \in WrittenBy(r, p) :
         LET row == run[r].rows[p]
         IN /\ c.status = "FAILED"
            /\ c.case_id \in FallbackKeys(r, p)
            /\ c.case_id /= row.case_id
            /\ c.errorMessage /= None
            /\ \A e \in c.errorMessage :
                 e.original = (IF Truthy(row.case_id) THEN row.case_id ELSE "<none>")

\* a row failed validation and another one failed at the upsert; both are stored
C2_Witness ==
  \E r \in ListRuns : \E p \in Failed(r), q \in Failed(r) :
    /\ run[r].term[p] = "VALIDATION_FAILED" /\ WrittenBy(r, p) /= {}
    /\ run[r].term[q] = "PERSIST_FAILED" /\ WrittenBy(r, q) /= {}
    /\ run[r].rows[q].case_id /= NULL
    /\ run[r].rows[p].case_id = NULL

\* C3: after the upsert of a valid row, exactly one case has the row's
\* case_id; it carries the fields of that (latest) submission, absent ones
\* as null, no errorMessage, the row's status or COMPLETED, and the user and
\* timestamp of the run that wrote it last.
C3_UpsertKeepsOneCase ==
  \A c \in cases :
    (c.g_run \in Runs /\ ~c.g_edited /\ run[c.g_run].term[c.g_pos + 1] = "SUCCEEDED") =>
      LET st == run[c.g_run]
          row == st.rows[c.g_pos + 1]
      IN /\ c.case_id = row.case_id
         /\ Cardinality({ d \in cases : d.case_id = row.case_id }) = 1
         /\ c.applicant_name = row.applicant_name
         /\ c.email = row.email
         /\ c.phone = row.phone
         /\ c.category = row.category
         /\ c.dob = (IF row.dob \in {"2001-02-03"} THEN row.dob ELSE NULL)
         /\ c.priority = (IF row.priority = "3" THEN {3} ELSE {})
         /\ c.errorMessage = None
         /\ c.status = (IF row.status = NULL THEN "COMPLETED" ELSE row.status)
         /\ c.importedById = st.user.userId
         /\ c.importedAt = st.importTimestamp

\* the same row was upserted by two runs of different users and timestamps;
\* the case is the one the first run created
C3_Witness ==
  \E c \in cases :
    /\ c.g_run = 2
    /\ run[1].pc = "done" /\ run[2].pc = "done"
    /\ \E p \in Positions(1) :
         /\ run[1].term[p] = "SUCCEEDED"
         /\ run[1].rows[p] = run[2].rows[c.g_pos + 1]
    /\ run[2].term[c.g_pos + 1] = "SUCCEEDED"
    /\ run[1].importTimestamp /= run[2].importTimestamp
    /\ run[1].user /= run[2].user
    /\ c.id = 1

\* C4: whatever batch runs and single-case edits have done, and however they
\* interleave, no two cases whose status is not FAILED share a case_id.
C4_UniqueCaseId ==
  \A c \in cases, d \in cases :
    (c.status /= "FAILED" /\ d.status /= "FAILED" /\ c.case_id = d.case_id) => c.id = d.id

\* two runs have both upserted the same case_id and an edit has changed the case
C4_Witness ==
  /\ \E p \in Positions(1), q \in Positions(2) :
       /\ run[1].term[p] = "SUCCEEDED" /\ run[2].term[q] = "SUCCEEDED"
       /\ run[1].rows[p].case_id = run[2].rows[q].case_id
  /\ \E e \in Puts : put[e].pc = "done" /\ put[e].status = 200
  /\ \E c \in cases : c.g_edited /\ c.status /= "FAILED"

\* the import logs a run has created
LogsOf(r) == { l \in importLogs : l.g_run = r }

\* C5: in every batch run successCount + failCount <= totalRows and totalRows
\* is the number of rows received, in the counters, in the report and in the
\* import log.
C5_CountsWithinTotal ==
  \A r \in ListRuns :
    LET st == run[r]
    IN /\ st.totalRows = st.received
       /\ st.successCount + st.failCount <= st.totalRows
       /\ st.pc = "done" =>
            /\ st.response.totalRows = st.received
            /\ st.response.successCount + st.response.failCount <= st.response.totalRows
       /\ \A l \in LogsOf(r) :
            /\ l.totalRows = st.received
            /\ l.successCount + l.failCount <= l.totalRows

\* a finished run of three rows, with a success, a failure and a skipped
\* duplicate, has its import log
C5_Witness ==
  \E r \in ListRuns :
    /\ run[r].pc = "done"
    /\ run[r].received = 3
    /\ run[r].successCount = 1 /\ run[r].failCount = 1
    /\ LogsOf(r) /= {}

\* C6: when a batch run is done every row is in exactly one of the four
\* terminal states; successCount counts the rows whose upsert succeeded,
\* failCount those that failed validation or upsert, the two and the skipped
\* duplicates add up to totalRows, and errors has exactly one entry per failed
\* row and per skipped duplicate and none for a row that succeeded.
C6_RowsAccountedFor ==
  \A r \in ListRuns :
    run[r].pc = "done" =>
      LET st == run[r]
          skipped == { p \in Positions(r) : EarlierOccurrence(st.rows, p) }
          succeeded == { p \in Positions(r) : st.term[p] = "SUCCEEDED" }
      IN /\ \A p \in Positions(r) : st.term[p] \in Terminal
         /\ \A p \in Positions(r) : st.term[p] = "SKIPPED_DUPLICATE" <=> p \in skipped
         /\ st.response.successCount = Cardinality(succeeded)
         /\ st.response.failCount = Cardinality(Failed(r))
         /\ st.response.successCount + st.response.failCount + Cardinality(skipped)
              = st.response.totalRows
         /\ \A p \in succeeded : st.wrote[p] = 1
         /\ Len(st.response.errors) = Cardinality(Failed(r)) + Cardinality(skipped)
         /\ \A p \in Positions(r) :
              Cardinality({ j \in 1..Len(st.response.errors) :
                              st.response.errors[j].index = p - 1 })
                = (IF p \in succeeded THEN 0 ELSE 1)

\* a finished run has a skipped duplicate, a row that failed validation and
\* one that succeeded
C6_Witness ==
  \E r \in ListRuns :
    /\ run[r].pc = "done"
    /\ \E p \in Positions(r) : run[r].term[p] = "SKIPPED_DUPLICATE"
    /\ \E p \in Positions(r) : run[r].term[p] = "VALIDATION_FAILED"
    /\ \E p \in Positions(r) : run[r].term[p] = "SUCCEEDED"

\* the run is at a persistence call of a row, of a duplicated case_id or at
\* the import log: the places from which BatchStep goes on, whether the call
\* succeeds or fails
AtPersistenceCall(st) ==
  \/ /\ st.pc \in {"upsert", "create1", "create2"}
     /\ RowIndex(st) < Len(st.rows)
     /\ st.term[RowIndex(st) + 1] = (IF st.pc = "upsert" THEN Pending ELSE st.term[RowIndex(st) + 1])
     /\ \A p \in 1..RowIndex(st) : st.term[p] \in Terminal
  \/ /\ st.pc \in {"noteFind", "noteCreate"}
     /\ st.k < Len(st.dupCaseIds)
     /\ \A p \in 1..Len(st.rows) : st.term[p] \in Terminal
  \/ /\ st.pc = "log"
     /\ \A p \in 1..Len(st.rows) : st.term[p] \in Terminal

\* C7: a batch run over a list of rows, whatever persistence calls fail,
\* goes from one persistence call to the next, row after row, and ends with
\* the report as its response: no failure ends it with an error response or
\* leaves a row unprocessed.
C7_RunAlwaysReports ==
  \A r \in ListRuns :
    /\ run[r].pc /= "done" => AtPersistenceCall(run[r])
    /\ run[r].pc = "done" =>
         /\ run[r].response.status = 200
         /\ \A p \in Positions(r) : run[r].term[p] \in Terminal
         /\ run[r].response.totalRows = Len(run[r].rows)

\* a persistence call has failed, a row has failed before a later row
\* succeeded, and the run has returned its report
C7_Witness ==
  \E r \in ListRuns :
    /\ run[r].pc = "done"
    /\ run[r].response.status = 200
    /\ faults > 0
    /\ \E p \in Positions(r), q \in Positions(r) :
         /\ p < q
         /\ run[r].term[p] \in {"VALIDATION_FAILED", "PERSIST_FAILED"}
         /\ run[r].wrote[p] = 0
         /\ run[r].term[q] = "SUCCEEDED"

\* C8 as stated: a finished run whose caller has a userId has created exactly
\* one import log, with the counts of the report and the timestamp stamped
\* on the cases the run wrote; a run without a userId has created none.
C8_ExactlyOneImportLog ==
  \A r \in ListRuns :
    run[r].pc = "done" =>
      /\ Cardinality(LogsOf(r)) = (IF Truthy(run[r].user.userId) THEN 1 ELSE 0)
      /\ \A l \in LogsOf(r) :
           /\ l.totalRows = run[r].response.totalRows
           /\ l.successCount = run[r].response.successCount
           /\ l.failCount = run[r].response.failCount
           /\ \A c \in cases : c.g_run = r => c.importedAt = l.createdAt
      /\ run[r].response.status = 200

\* C8: a finished run whose caller has a userId has created exactly one
\* import log unless the insert of the log failed, and then none; the log has
\* the counts of the report, its id is the report's importLogId and its
\* createdAt is the importedAt of every case the run wrote; a run without a
\* userId, or whose log insert failed, has no log and no importLogId, and
\* has its report all the same.
C8_OneImportLogUnlessInsertFails ==
  \A r \in ListRuns :
    LET st == run[r]
    IN /\ \A c \in cases : c.g_run = r => c.importedAt = st.importTimestamp
       /\ st.pc /= "done" => LogsOf(r) = {}
       /\ st.pc = "done" =>
            /\ Cardinality(LogsOf(r))
                 = (IF Truthy(st.user.userId) /\ ~st.logFailed THEN 1 ELSE 0)
            /\ \A l \in LogsOf(r) :
                 /\ l.userId = st.user.userId
                 /\ l.totalRows = st.response.totalRows
                 /\ l.successCount = st.response.successCount
                 /\ l.failCount = st.response.failCount
                 /\ l.createdAt = st.importTimestamp
                 /\ st.response.importLogId = Some(l.id)
            /\ LogsOf(r) = {} => st.response.importLogId = None
            /\ st.response.status = 200

\* two finished runs that started at different times: one has its log and
\* cases it wrote, the other has a userId and lost its log to a failed insert
C8_Witness ==
  \E r \in ListRuns, q \in ListRuns :
    /\ run[r].pc = "done" /\ run[q].pc = "done"
    /\ run[r].importTimestamp /= run[q].importTimestamp
    /\ LogsOf(r) /= {}
    /\ \E c \in cases : c.g_run = r
    /\ Truthy(run[q].user.userId) /\ run[q].logFailed /\ LogsOf(q) = {}

\* the notes a run has attached about the duplicated case_id cid
NotesAbout(r, cid) ==
  { n \in notes : /\ n.g_run = r
                  /\ n.content = NoteContent(run[r].duplicatesMap[cid])
                  /\ \E c \in WrittenBy(r, run[r].lastIndexForCase[cid] + 1) : c.id = n.caseId }

\* C9 as stated, for a run that is alone and that no persistence call has
\* failed for an outside reason: after the post-pass every case_id with
\* skipped duplicates has exactly one note, on the case the last occurrence
\* of that case_id wrote in this run, stating the number of skipped
\* occurrences.
C9_OneNotePerDuplicatedKey ==
  \A r \in ListRuns :
    (/\ run[r].pc \in {"log", "done"}
     /\ faults = 0
     /\ \A q \in Runs \ {r} : run[q].pc = "idle") =>
      \A cid \in DOMAIN run[r].duplicatesMap : Cardinality(NotesAbout(r, cid)) = 1

\* C10 as stated: the index of every entry of errors is the position, in the
\* list the caller sent, of the row the entry is about.
C10_IndexIsInputPosition ==
  \A r \in ListRuns :
    \A j \in 1..Len(run[r].errors) :
      run[r].perm[run[r].errors[j].index + 1] = run[r].errors[j].index + 1

\* a case_id that is missing, empty, or empty after trimming
BlankCaseId(v) == v \in {NULL, "", " "}

\* C11 as stated: a row whose case_id is missing, empty or blank (and that
\* is not skipped as an earlier duplicate) ends in VALIDATION_FAILED and is
\* never stored as a successful case.
C11_BlankCaseIdFailsValidation ==
  \A r \in ListRuns : \A p \in Processed(r) :
    (BlankCaseId(run[r].rows[p].case_id) /\ ~EarlierOccurrence(run[r].rows, p)) =>
      /\ run[r].term[p] = "VALIDATION_FAILED"
      /\ \A c \in WrittenBy(r, p) : c.status = "FAILED"

\* C12 as stated: an otherwise valid row whose priority is HIGH, high or
\* "3", and whose upsert does not fail, is stored as a successful case with
\* priority 3; a label the coercion helper turns into null is treated the
\* same way by the validator: the row succeeds with priority null.
C12_PriorityLabelsAccepted ==
  \A r \in ListRuns : \A p \in Processed(r) :
    LET row == run[r].rows[p]
    IN (/\ ~EarlierOccurrence(run[r].rows, p)
        /\ ~BlankCaseId(row.case_id)
        /\ run[r].term[p] /= "PERSIST_FAILED") =>
         /\ row.priority \in {"HIGH", "high", "3"} =>
              /\ run[r].term[p] = "SUCCEEDED"
              /\ \A c \in WrittenBy(r, p) : c.priority = Some(3)
         /\ (row.priority /= NULL /\ parsePriorityValue(row.priority) = None) =>
              /\ run[r].term[p] = "SUCCEEDED"
              /\ \A c \in WrittenBy(r, p) : c.priority = None

\* the place of a case_id in the ascending order: missing and empty first,
\* letters without regard to case, the number in a key by its value
KeyRank(v) ==
  CASE v \in {NULL, ""} -> 0
    [] v = " " -> 1
    [] v \in {"a", "A"} -> 2
    [] v = "B" -> 3
    [] v = "C2" -> 4
    [] v = "C10" -> 5

\* C13: the rows of a run are processed in ascending case_id order, numbers
\* by value ("C2" before "C10"), case ignored, missing and empty keys first;
\* rows whose keys compare equal keep their input order, and the occurrence
\* of a duplicated case_id that is not skipped is the last one of the input.
C13_SortedStable ==
  \A r \in ListRuns :
    LET st == run[r]
        n == Len(st.rows)
    IN /\ Len(st.perm) = n
       /\ { st.perm[k] : k \in 1..n } = 1..n
       /\ \A k \in 1..n, l \in 1..n :
            k < l =>
              /\ KeyRank(st.rows[k].case_id) <= KeyRank(st.rows[l].case_id)
              /\ KeyRank(st.rows[k].case_id) = KeyRank(st.rows[l].case_id)
                   => st.perm[k] < st.perm[l]
       /\ \A p \in Processed(r) :
            (Truthy(st.rows[p].case_id) /\ st.term[p] /= "SKIPPED_DUPLICATE") =>
              \A q \in 1..n :
                st.rows[q].case_id = st.rows[p].case_id => st.perm[q] <= st.perm[p]

\* a finished run was sent "C10" before "C2" and processed "C2" first
C13_Witness ==
  \E r \in ListRuns :
    /\ run[r].pc = "done"
    /\ Len(run[r].rows) = 2
    /\ run[r].rows[1].case_id = "C2" /\ run[r].rows[2].case_id = "C10"
    /\ run[r].perm = <<2, 1>>

\* a request body that is neither a list of rows nor a wrapper of one
NotAList == [isArray |-> FALSE, cases |-> <<>>]

\* C14: when a body that is neither a list of rows nor a wrapper holding one
\* arrives, the request ends at once with the error response 400 and the
\* step leaves the cases, the notes and the import logs as they are.
C14_NonListRejected ==
  [][\A r \in Runs, user \in BatchCallers, now \in 1..MaxClock :
       BatchStart(r, NotAList, user, now, MaxTotalRows, FALSE) =>
         /\ run'[r].pc = "done"
         /\ run'[r].response.status = 400
         /\ UNCHANGED <<cases, notes, importLogs, nextId>>]_vars

\* a request with such a body was rejected while the tables hold the cases
\* and the import log of another run
C14_Witness ==
  \E r \in Runs :
    /\ run[r].pc = "done"
    /\ run[r].response.status = 400
    /\ cases /= {} /\ importLogs /= {}
    /\ \A c \in cases : c.g_run /= r
    /\ LogsOf(r) = {}

\* C19: the FAILED record of a failed row is first inserted under the base
\* fallback key; when that insert fails the insert is tried once more under
\* the key with a suffix; whether the second insert succeeds or fails, the
\* run goes on to the next row: there is no third attempt, the row stays
\* failed with its one error entry, and when the second insert failed too no
\* record of the row exists.
C19_RetryOnce ==
  [][\A r \in Runs :
       LET st == run[r]
           p == RowIndex(st) + 1
           recordsAfter == { c \in cases' : c.g_run = r /\ c.g_pos = p - 1 }
           moved == \/ run'[r].pc \notin {"create1", "create2"}
                    \/ RowIndex(run'[r]) > RowIndex(st)
       IN /\ (st.pc = "create1" /\ run'[r] /= st) =>
               \/ /\ moved
                  /\ \E c \in recordsAfter :
                       /\ c.case_id = st.fallbackId
                       /\ cases' = cases \cup {c}
               \/ /\ run'[r].pc = "create2"
                  /\ RowIndex(run'[r]) = RowIndex(st)
                  /\ run'[r].createData.case_id
                       \in { SuffixedId(st.fallbackId, sfx) : sfx \in Suffixes }
                  /\ cases' = cases
          /\ (st.pc = "create2" /\ run'[r] /= st) =>
               /\ moved
               /\ run'[r].term[p] = st.term[p]
               /\ st.term[p] \in {"VALIDATION_FAILED", "PERSIST_FAILED"}
               /\ run'[r].failCount >= st.failCount
               /\ Cardinality({ j \in 1..Len(run'[r].errors) :
                                  run'[r].errors[j].index = p - 1 }) = 1
               /\ \/ cases' = cases /\ recordsAfter = {}
                  \/ \E c \in recordsAfter :
                       /\ c.case_id = st.createData.case_id
                       /\ c.case_id /= st.fallbackId
                       /\ cases' = cases \cup {c}]_vars

\* both inserts of a failed row failed, the first on the base key that the
\* record of another run holds: the row has its error entry and no record,
\* and the run has processed the row after it
C19_Witness ==
  \E r \in ListRuns : \E p \in Failed(r) :
    /\ run[r].wrote[p] = 0
    /\ WrittenBy(r, p) = {}
    /\ Cardinality(ErrorsAbout(r, p)) = 1
    /\ run[r].failCount >= 1
    /\ p + 1 \in Processed(r)
    /\ \E c \in cases : c.case_id = FallbackId(run[r].importTimestamp, 0, p - 1)

\* C20: a step of a run in which a row fails validation or its upsert, or
\* in which the FAILED record of such a row is inserted, leaves every case
\* stored under the row's own case_id exactly as it was.
C20_FailedRowLeavesCase ==
  [][\A r \in Runs :
       LET st == run[r]
           failing == { q \in 1..Len(run'[r].rows) :
                          /\ run'[r].term[q] \in {"VALIDATION_FAILED", "PERSIST_FAILED"}
                          /\ \/ st.pc = "idle"
                             \/ st.term[q] = Pending
                             \/ /\ st.pc \in {"create1", "create2"}
                                /\ q = RowIndex(st) + 1 }
       IN run'[r] /= st =>
            \A q \in failing :
              \A c \in cases : c.case_id = run'[r].rows[q].case_id => c \in cases']_vars

\* a case imported by one run is as that run left it, although another run
\* had a row of the same case_id that failed validation and stored its
\* FAILED record, and a row whose upsert failed
C20_Witness ==
  \E r \in ListRuns, q \in ListRuns :
    /\ r /= q
    /\ \E c \in cases, pr \in Positions(r), pq \in Failed(q) :
         /\ c.g_run = r /\ c.g_pos = pr - 1
         /\ run[r].term[pr] = "SUCCEEDED"
         /\ run[q].rows[pq].case_id = c.case_id
         /\ WrittenBy(q, pq) /= {}
         /\ c.importedAt = run[r].importTimestamp
    /\ \E pq \in Failed(q) : run[q].term[pq] = "PERSIST_FAILED"

\* the value an edit stores for a field its payload has
EditedValue(f, v) ==
  CASE f = "dob" -> safeDateFrom(v)
    [] f = "priority" -> parsePriorityValue(v)
    [] OTHER -> v

\* C16: an edit passes the lookup and the permission check only when the
\* case exists and the caller is its importer or an ADMIN, and otherwise ends
\* with 404 or 403; these steps change no case.  A successful update changes
\* only the case it looked up: the fields the payload has, among
\* applicant_name, email, phone, category, status, dob and priority, take the
\* payload's values and every other field stays, case_id, importedById,
\* importedAt and errorMessage included; a failed update changes no case.
C16_EditFrame ==
  [][\A p \in Puts :
       LET st == put[p]
           ed == put'[p]
       IN /\ (st.pc = "idle" /\ ed.pc /= "idle") =>
               /\ cases' = cases
               /\ ed.pc = "update" =>
                    \E c \in cases :
                      /\ c.id = ed.existing
                      /\ \/ ed.user.role = "ADMIN"
                         \/ Truthy(ed.user.userId) /\ c.importedById = ed.user.userId
               /\ ed.pc = "done" => ed.status \in {403, 404}
          /\ (st.pc = "update" /\ ed.pc = "done") =>
               IF ed.status = 200
                 THEN /\ Cardinality(cases') = Cardinality(cases)
                      /\ \A c \in cases :
                           IF c.id /= st.existing THEN c \in cases'
                           ELSE \E d \in cases' :
                                  /\ d.id = c.id
                                  /\ d.case_id = c.case_id
                                  /\ d.importedById = c.importedById
                                  /\ d.importedAt = c.importedAt
                                  /\ d.errorMessage = c.errorMessage
                                  /\ \A f \in DOMAIN st.payload :
                                       d[f] = IF st.payload[f] = UNDEF THEN c[f]
                                              ELSE EditedValue(f, st.payload[f])
                 ELSE cases' = cases]_vars

\* a caller who is no ADMIN has edited the name and the priority of a case
\* they imported; the case keeps its status and its import stamp
C16_Witness ==
  \E p \in Puts : \E c \in cases :
    /\ put[p].pc = "done" /\ put[p].status = 200
    /\ put[p].user.role /= "ADMIN"
    /\ put[p].payload.applicant_name = "edited"
    /\ c.id = put[p].existing
    /\ c.applicant_name = "edited"
    /\ c.priority = Some(3)
    /\ c.status = "NEW"
    /\ c.importedById = put[p].user.userId

\* the cursors a client can send: none, or the id of a case
Cursors == {None} \cup { Some(c.id) : c \in cases }

\* C17: every read path (the listing, the detail of a case, the detail of an
\* import log) gives a caller who is not ADMIN only cases whose importedById
\* is the caller's id
C17_ReadsOnlyOwnCases ==
  \A user \in ReadCallers :
    user.role /= "ADMIN" =>
      /\ \A q \in Queries, limitRaw \in Limits, cursor \in Cursors :
            LET items == ListResponse(user, q, limitRaw, cursor).items
            IN \A k \in 1..Len(items) : items[k].importedById = user.userId
      /\ \A param \in PutParams :
            \A c \in CaseResponse(user, param).case : c.importedById = user.userId
      /\ \A id \in 1..nextId :
            \A c \in ImportLogResponse(user, id).failedRows : c.importedById = user.userId

\* the pages of a listing, one after the other
RECURSIVE Flatten(_)
Flatten(pages) ==
  IF pages = <<>> THEN <<>> ELSE Head(pages) \o Flatten(Tail(pages))

\* C18: following nextCursor from the first page until there is none, with
\* no write in between, gives every case that matches the filters exactly
\* once, in the order of (importedAt, id), at most `limit` cases a page
C18_PagesCoverListing ==
  \A user \in ReadCallers, q \in Queries, limitRaw \in Limits :
    LET pages == Pages(user, q, limitRaw)
    IN /\ Flatten(pages) = Ordered({ c \in cases : Where(user, q, c) }, DirOf(q.sortDir))
       /\ \A k \in 1..Len(pages) : Len(pages[k]) =< LimitOf(limitRaw)

BaseKey(ts, p) == FallbackId(ts, (p - 1) \div ChunkSize, (p - 1) % ChunkSize)

\* C21: the base fallback keys of the rows of one run are pairwise distinct;
\* when two runs with the same timestamp both store a failed row of the same
\* position, the two records are different cases under different keys, the
\* one that met the other's fallback key under a suffixed key; and no step of a batch run
\* changes or removes a FAILED record that exists
C21_FallbackKeysDoNotCollide ==
  /\ [](\A r \in ListRuns :
          /\ \A p \in Positions(r), q \in Positions(r) :
                p /= q => BaseKey(run[r].importTimestamp, p) /= BaseKey(run[r].importTimestamp, q)
          /\ \A o \in ListRuns \ {r} :
                run[o].importTimestamp = run[r].importTimestamp =>
                  \A p \in Failed(r) \cap Failed(o) :
                    \A c \in WrittenBy(r, p), d \in WrittenBy(o, p) :
                      /\ c.id /= d.id
                      /\ c.case_id /= d.case_id
                      /\ c.case_id = BaseKey(run[r].importTimestamp, p) =>
                            d.case_id \in { SuffixedId(BaseKey(run[o].importTimestamp, p), sfx) :
                                               sfx \in Suffixes })
  /\ [][\A c \in cases : c.status = "FAILED" => c \in cases']_vars

\* two runs of the same timestamp have stored the failed row of the same
\* position, one under the fallback key and one under a suffixed key
C21_Witness ==
  \E r \in ListRuns, o \in ListRuns :
    /\ r /= o
    /\ run[o].importTimestamp = run[r].importTimestamp
    /\ \E p \in Failed(r) \cap Failed(o) :
         \E c \in WrittenBy(r, p), d \in WrittenBy(o, p) :
           /\ c.case_id = BaseKey(run[r].importTimestamp, p)
           /\ d.case_id /= c.case_id

\* C22: the import log of a run exists only when every row of the run is
\* terminal, the pass over the duplicated keys is over and the report is
\* made with the log's id; once it exists the run takes no further step,
\* so it writes no case
C22_LogComesLast ==
  /\ [](\A r \in ListRuns :
          LogsOf(r) /= {} =>
            /\ run[r].pc = "done"
            /\ Processed(r) = Positions(r)
            /\ \A l \in LogsOf(r) : run[r].response.importLogId = Some(l.id))
  /\ [][\A r \in Runs :
          /\ (LogsOf(r) = {} /\ LogsOf(r)' /= {}) => run[r].pc = "log"
          /\ LogsOf(r) /= {} => run'[r] = run[r]]_vars

\* a run with a stored row, a failed row and a note has its import log
C22_Witness ==
  \E r \in ListRuns :
    /\ LogsOf(r) /= {}
    /\ \E p \in Positions(r) : run[r].term[p] = "SUCCEEDED"
    /\ Failed(r) /= {}
    /\ \E n \in notes : n.g_run = r

\* C23: the failed rows in the detail of an import log are exactly the
\* FAILED cases stored by the run that wrote the log, whatever other runs
\* did meanwhile or at the same timestamp
C23_FailedRowsOfTheRun ==
  \A l \in importLogs, user \in ReadCallers :
    ImportLogResponse(user, l.id).failedRows =
      { c \in cases : c.g_run = l.g_run /\ c.status = "FAILED" }

\* C24: whatever batch runs and single-case updates have happened, a case
\* with an errorMessage has status FAILED
C24_ErrorMessageImpliesFailed ==
  \A c \in cases : c.errorMessage /= None => c.status = "FAILED"

\* C25: a step of the pass over the duplicated keys or of the creation of
\* the import log, failing or not, leaves the run's counts and errors and
\* the cases as they are; the report of a run whose notes or import log
\* failed carries those counts and errors, and when the import log failed
\* it is still the report, without importLogId
C25_LateFailuresKeepReport ==
  /\ [](\A r \in ListRuns :
          /\ run[r].logFailed =>
                /\ run[r].pc = "done"
                /\ LogsOf(r) = {}
                /\ run[r].response.importLogId = None
          /\ (run[r].pc = "done" /\ (run[r].logFailed \/ run[r].noteFailed)) =>
                /\ run[r].response.status = 200
                /\ run[r].response.totalRows = Len(run[r].rows)
                /\ run[r].response.successCount =
                     Cardinality({ p \in Positions(r) : run[r].term[p] = "SUCCEEDED" })
                /\ run[r].response.failCount = Cardinality(Failed(r))
                /\ run[r].response.errors = run[r].errors)
  /\ [][\A r \in Runs :
          (run[r].pc \in {"noteFind", "noteCreate", "log"} /\ run'[r] /= run[r]) =>
            /\ run'[r].totalRows = run[r].totalRows
            /\ run'[r].successCount = run[r].successCount
            /\ run'[r].failCount = run[r].failCount
            /\ run'[r].errors = run[r].errors
            /\ cases' = cases]_vars

\* the import log of a run that stored a row could not be written, and the
\* run has answered
C25_Witness ==
  \E r \in ListRuns :
    /\ run[r].logFailed
    /\ run[r].response.status = 200
    /\ \E p \in Positions(r) : run[r].term[p] = "SUCCEEDED" /\ WrittenBy(r, p) /= {}

\* C26: a step of a batch import or of a single-case update whose caller is
\* not ADMIN leaves every case that another user imported as it is
C26_OthersCasesUntouched ==
  [][\A c \in cases :
       (\/ \E r \in Runs : /\ run'[r] /= run[r]
                            /\ run[r].pc /= "idle"
                            /\ run[r].user.role /= "ADMIN"
                            /\ c.importedById /= run[r].user.userId
        \/ \E p \in Puts : /\ put'[p] /= put[p]
                            /\ put[p].pc /= "idle"
                            /\ put[p].user.role /= "ADMIN"
                            /\ c.importedById /= put[p].user.userId)
       => c \in cases']_vars

\* the cases a run has created for its failed rows
FallbackRecords(r) == { c \in cases : c.g_run = r /\ c.errorMessage /= None }

C28_NotesOfRemainingKeys ==
  \A r \in ListRuns :
    (run[r].pc = "done" /\ run[r].noteFailed) =>
      \A j \in (run[r].k + 2)..Len(run[r].dupCaseIds) :
        LET cid == run[r].dupCaseIds[j]
        IN WrittenBy(r, run[r].lastIndexForCase[cid] + 1) /= {} => NotesAbout(r, cid) /= {}

\* every persistence call a run waits for eventually returns or fails
PersistenceAnswers == \A r \in Runs : WF_vars(BatchStep(r))

\* batch requests with a short list of rows, or with a body that is no list
NextAnswer ==
  \/ \E r \in { q \in Runs : run[q].pc = "idle" } :
       \E body \in ReadBodies(MaxAnswerRows) \cup {NotAList}, user \in BatchCallers,
          now \in clock..MaxClock :
         BatchStart(r, body, user, now, MaxAnswerRows, FALSE)
  \/ \E r \in Runs : BatchStep(r)

SpecAnswer == Init /\ [][NextAnswer]_vars /\ PersistenceAnswers

\* C29: provided every persistence call returns or fails, a batch request
\* that has arrived is eventually answered, with the report, a 400 or a
\* 500, and the answer, once sent, is not followed by another
C29_EveryRequestAnswered ==
  /\ \A r \in Runs : (run[r].pc /= "idle") ~> (run[r].pc = "done")
  /\ [](\A r \in Runs : run[r].pc = "done" => run[r].response.status \in {200, 400, 500})
  /\ [][\A r \in Runs : run[r].pc = "done" => run'[r] = run[r]]_vars

\* a run with a stored and a failed row has been answered, and so has a
\* request whose body is no list
C29_Witness ==
  \E r \in Runs, o \in Runs :
    /\ run[r].pc = "done" /\ run[r].response.status = 200
    /\ Failed(r) /= {}
    /\ \E p \in Positions(r) : run[r].term[p] = "SUCCEEDED"
    /\ run[o].pc = "done" /\ run[o].response.status = 400

\* ------------------------------------------------------- the upload page
\* Upload.jsx, submitBatch: the rows are counted, not spelled out; a batch
\* is the slice of the rows it carries
batchSize == 100
concurrency == 4

Min(a, b) == IF a < b THEN a ELSE b

\* chunkArray(arr, size): slices [i, i + size) for i = 0, size, ... below
\* arr.length; slice stops at the end of the array
RECURSIVE chunkFrom(_, _, _)
chunkFrom(i, len, size) ==
  IF i < len
    THEN <<[from |-> i, to |-> Min(i + size, len)]>> \o chunkFrom(i + size, len, size)
    ELSE <<>>

chunkArray(len, size) == chunkFrom(0, len, size)

UploadRowCounts == { n \in 0..MaxUploadRows : n % UploadRowStep = 0 }

\* the guards and the set-up before the loop (lines 251-273)
SubmitBatch(rows, columnWarningAccepted, mismatch, invalidCount) ==
  /\ upload.pc = "idle"
  /\ upload' =
       IF ~columnWarningAccepted /\ mismatch
         THEN [upload EXCEPT !.toast = "review columns"]
       ELSE IF invalidCount > 0
         THEN [upload EXCEPT !.toast = "fix cells"]
       ELSE IF Len(chunkArray(rows, batchSize)) = 0
         THEN [upload EXCEPT !.toast = "no rows"]
       ELSE [upload EXCEPT !.pc = "loop", !.rowData = rows,
                           !.batches = chunkArray(rows, batchSize),
                           !.totalBatches = Len(chunkArray(rows, batchSize)),
                           !.uploading = TRUE, !.completed = 0, !.success = 0,
                           !.failed = 0, !.toast = "loading",
                           !.pointer = 0, !.successCount = 0, !.failCount = 0,
                           !.g_posts = [b \in 1..Len(chunkArray(rows, batchSize)) |-> 0]]
  /\ UNCHANGED <<cases, notes, importLogs, nextId, clock, faults, run, put, view>>

\* batches.slice(pointer, pointer + concurrency), as batch numbers from 1
WindowOf(up) ==
  { b \in 1..up.totalBatches : up.pointer < b /\ b <= up.pointer + concurrency }

\* one turn of the while loop up to its await: every batch of the window is
\* posted (lines 276-285)
PostWindow ==
  /\ upload.pc = "loop"
  /\ upload.pointer < upload.totalBatches
  /\ upload' = [upload EXCEPT
                  !.pc = "await",
                  !.window = WindowOf(upload),
                  !.results = [b \in WindowOf(upload) |-> "pending"],
                  !.g_posts = [b \in DOMAIN upload.g_posts |->
                                 IF b \in WindowOf(upload) THEN upload.g_posts[b] + 1
                                                           ELSE upload.g_posts[b]]]
  /\ UNCHANGED <<cases, notes, importLogs, nextId, clock, faults, run, put, view>>

\* one request of the window is answered or fails; either way its promise
\* resolves, to { ok: true } or to { ok: false } (lines 279-282)
Settle(b, ok) ==
  /\ upload.pc = "await"
  /\ b \in upload.window
  /\ upload.results[b] = "pending"
  /\ upload' = [upload EXCEPT !.results[b] = IF ok THEN "ok" ELSE "err"]
  /\ UNCHANGED <<cases, notes, importLogs, nextId, clock, faults, run, put, view>>

\* variant: a failed request rejects the window and the catch block ends
\* the upload
WindowSettledStopsOnFailure ==
  /\ upload.pc = "await"
  /\ \A b \in upload.window : upload.results[b] /= "pending"
  /\ IF \E b \in upload.window : upload.results[b] = "err"
       THEN upload' = [upload EXCEPT !.pc = "done", !.window = {}, !.results = <<>>,
                                     !.toast = "failed", !.uploading = FALSE,
                                     !.completed = upload.totalBatches]
       ELSE LET ok == Cardinality(upload.window)
                pointer == upload.pointer + concurrency
            IN upload' = [upload EXCEPT
                            !.pc = "loop", !.window = {}, !.results = <<>>,
                            !.successCount = upload.successCount + ok * batchSize,
                            !.pointer = pointer,
                            !.completed = Min(pointer, upload.totalBatches),
                            !.success = upload.successCount + ok * batchSize,
                            !.toast = "loading"]
  /\ UNCHANGED <<cases, notes, importLogs, nextId, clock, faults, run, put, view>>

\* Promise.all resolves when every request of the window has settled; the
\* counts, the pointer and the progress follow (lines 285-302)
WindowSettled ==
  /\ upload.pc = "await"
  /\ \A b \in upload.window : upload.results[b] /= "pending"
  /\ LET ok == Cardinality({ b \in upload.window : upload.results[b] = "ok" })
         err == Cardinality({ b \in upload.window : upload.results[b] = "err" })
         successCount == upload.successCount + ok * batchSize
         failCount == upload.failCount + err * batchSize
         pointer == upload.pointer + concurrency
     IN upload' = [upload EXCEPT
                     !.pc = "loop", !.window = {}, !.results = <<>>,
                     !.successCount = successCount, !.failCount = failCount,
                     !.pointer = pointer,
                     !.completed = Min(pointer, upload.totalBatches),
                     !.success = successCount, !.failed = failCount,
                     !.toast = "loading"]
  /\ UNCHANGED <<cases, notes, importLogs, nextId, clock, faults, run, put, view>>

\* the loop is left: the summary, the grid is cleared, and the finally
\* block (lines 305-327)
UploadComplete ==
  /\ upload.pc = "loop"
  /\ ~(upload.pointer < upload.totalBatches)
  /\ upload' = [upload EXCEPT !.pc = "done", !.toast = "complete", !.rowData = 0,
                              !.uploading = FALSE,
                              !.completed = upload.totalBatches]
  /\ UNCHANGED <<cases, notes, importLogs, nextId, clock, faults, run, put, view>>

NextUpload ==
  \/ \E rows \in UploadRowCounts, accepted \in BOOLEAN, mismatch \in BOOLEAN,
        invalidCount \in {0, 1} :
       SubmitBatch(rows, accepted, mismatch, invalidCount)
  \/ PostWindow
  \/ \E b \in 1..(MaxUploadRows \div batchSize), ok \in BOOLEAN : Settle(b, ok)
  \/ WindowSettled
  \/ UploadComplete

SpecUpload == Init /\ [][NextUpload]_vars

InFlight(up) == { b \in up.window : up.results[b] = "pending" }

\* C30: the rows go out in batches of 100 that together are the rows; at
\* most 4 requests are in flight; a window is posted only when no request
\* is in flight; no batch is posted twice, and when the loop has ended,
\* failed requests or not, every batch was posted once and completed is
\* the number of batches
C30_WindowsOfFour ==
  /\ [](/\ Cardinality(InFlight(upload)) <= 4
        /\ \A b \in DOMAIN upload.g_posts : upload.g_posts[b] <= 1
        /\ upload.pc /= "idle" =>
             /\ \A b \in 1..upload.totalBatches :
                  /\ upload.batches[b].from = 100 * (b - 1)
                  /\ upload.batches[b].to - upload.batches[b].from <= 100
                  /\ b < upload.totalBatches =>
                       upload.batches[b].to - upload.batches[b].from = 100
                  /\ upload.batches[b].to > upload.batches[b].from
             /\ upload.pc /= "done" =>
                  upload.batches[upload.totalBatches].to = upload.rowData
        /\ upload.pc = "done" =>
             /\ \A b \in 1..upload.totalBatches : upload.g_posts[b] = 1
             /\ upload.completed = upload.totalBatches
             /\ upload.successCount + upload.failCount = 100 * upload.totalBatches)
  /\ [][upload'.g_posts /= upload.g_posts => InFlight(upload) = {}]_vars

\* an upload of nine batches in three windows has ended although two of
\* its requests had failed, and the last batch was short
C30_Witness ==
  /\ upload.pc = "done"
  /\ upload.totalBatches = 9
  /\ upload.batches[9].to - upload.batches[9].from = 50
  /\ upload.failCount = 200
  /\ upload.successCount = 700

====
